---- MODULE Spec2Model ----
(***************************************************************************)
(* The caching, pagination and dispatch layer of the OpenAPI Korea MCP     *)
(* server (src/src/openapi_korea/server_claude.py): the TTL cache          *)
(* DataCache, the cache-through client methods of KoreanOpenAPIClient,     *)
(* the page aggregation fetch_all_pages and the handlers                   *)
(* handle_read_resource / handle_call_tool.                                *)
(*                                                                         *)
(* A handler is an asyncio coroutine: it runs without interruption up to   *)
(* the upstream round trip in _make_request, the only suspend point.  An   *)
(* action of the model is a handler's run from its entry, or from the end  *)
(* of a round trip, to its next round trip or to its return.               *)
(***************************************************************************)
EXTENDS Integers, Sequences, FiniteSets, TLC

VARIABLES
    api_client,   \* "None" or "client": the module global set by main()
    sys_global,   \* whether the name sys is bound at module level
    upstream,     \* the scripts the upstream service may follow in a round trip
    now,          \* datetime.now(), in minutes
    cache,        \* api_client.cache.cache: key -> [data, timestamp]
    pc,           \* where the handler being served stands
    op,           \* the handler being served (or served last), its arguments,
                  \* and history: what it follows
    page,         \* fetch_all_pages: page
    all_items,    \* fetch_all_pages: all_items
    max_pages,    \* fetch_all_pages: max_pages
    stage,        \* refresh_data: which of its three if-blocks is next
    pending,      \* upstream requests awaiting their answer
    result,       \* what the last handler returned (or raised)
    ops,          \* number of handler invocations so far
    calls,        \* history: api_method invocations of the current run, in order
    fetches,      \* history: upstream requests sent by the current handler
    fresh,        \* history: cache keys stored by the current handler
    last_read,    \* history: the last resource read since refresh_data was
                  \* called, and what it returned
    stored        \* history of a DataCache or a client that is driven on
                  \* its own: what was last stored under each key, when and
                  \* by which call, since the last clear

vars == <<api_client, sys_global, upstream, now, cache, pc, op, page,
          all_items, max_pages, stage, pending, result, ops, calls, fetches,
          fresh, last_read, stored>>

----------------------------------------------------------------------------
(* Program constants *)

\* fetch_all_pages passes page_unit=100 and compares len(items) with 100
PageUnit == 100
\* fetch_all_pages(api_method, max_pages: int = 10)
DefaultMaxPages == 10
\* DataCache.__init__(self, ttl_minutes: int = 30)
TtlMinutes == 30
\* page_index: int = 1, page_unit: int = 100, the defaults of the client methods
DefaultPageIndex == 1
DefaultPageUnit == 100

(* Bounds of the model *)

\* items on a short page
ShortLen == 40
\* full pages an upstream script serves before its closing page
MaxFull == 3
\* largest max_pages handed to fetch_all_pages besides the default
MaxPagesInput == 3
\* steps of the clock, each of TickMinutes
MaxTicks == 1
\* handler invocations in one behaviour
MaxOps == 2
\* minutes around the time to live at which a DataCache is looked at
MaxSlack == 1
\* items of a page that hold the keyword in their name, and as many in
\* their address
MatchLen == 2
\* client calls that run at the same time
MaxTasks == 2
\* minutes that pass while they run
MaxMinutes == 2

----------------------------------------------------------------------------
(* The fixed names of the dispatch layer *)

Methods == {"parking", "smoking", "restaurant"}

KnownUris == {"sejong://parking/list", "sejong://smoking-area/list",
              "sejong://restaurant/list"}

\* handle_read_resource: which client method serves a uri
MethodOfUri(uri) ==
    CASE uri = "sejong://parking/list" -> "parking"
      [] uri = "sejong://smoking-area/list" -> "smoking"
      [] uri = "sejong://restaurant/list" -> "restaurant"

UriOfMethod(m) ==
    CASE m = "parking" -> "sejong://parking/list"
      [] m = "smoking" -> "sejong://smoking-area/list"
      [] m = "restaurant" -> "sejong://restaurant/list"

\* handle_call_tool: which client method a resource_type names
MethodOfType(rt) ==
    CASE rt = "parking" -> "parking"
      [] rt = "smoking_area" -> "smoking"
      [] rt = "restaurant" -> "restaurant"

KnownTypes == {"parking", "smoking_area", "restaurant"}

\* the default search_condition of a client method
DefaultCondition(m) ==
    CASE m = "parking" -> "nm"
      [] m = "smoking" -> "nm"
      [] m = "restaurant" -> "mtlty"

----------------------------------------------------------------------------
(* JSON values the upstream answers with.  A value is a record            *)
(* [kind, items]:                                                          *)
(*   "falsy"   null, {}, [], 0: `not data` holds                           *)
(*   "scalar"  a non-zero number: truthy, `'response' in data` raises      *)
(*   "noresp"  a non-empty object without 'response'                       *)
(*   "nobody"  {'response': {...}} without 'body'                          *)
(*   "noitems" {'response': {'body': {...}}} without 'items'               *)
(*   "items"   {'response': {'body': {'items': [...]}}}                    *)

Json(kind, items) == [kind |-> kind, items |-> items]

None == Json("falsy", <<>>)

\* Python truthiness of a parsed answer
Truthy(data) == data.kind # "falsy"

\* `'response' not in data` on a number raises TypeError
RaisesTypeError(data) == data.kind = "scalar"

\* fetch_all_pages: the envelope has response, body and items
HasItemsField(data) == data.kind = "items"

\* the id field of a raw item of each dataset
IdField(m) ==
    CASE m = "parking" -> "prkplceNo"
      [] m = "smoking" -> "smkngAreaNo"
      [] m = "restaurant" -> "restaurantId"

\* a raw upstream item: an object that holds its id, its name and its
\* address in the fields of its dataset; the model writes it as that id,
\* and the name and the address follow from the id
RawItem(m, id) == id

\* the name and the address of the item with an id: the last MatchLen
\* items of a page are named after Sejong, the MatchLen items before them
\* have Sejong in their address
NameOf(id) == IF id % 1000 < MatchLen THEN "Sejong Parking A" ELSE "Other"
AddressOf(id) ==
    IF id % 1000 \in MatchLen..(2 * MatchLen - 1) THEN "456 Sejong Ave"
    ELSE "123 Main"

\* whether the text holds the keyword, whatever the case of the letters
Contains(text, keyword) ==
    \/ keyword = ""
    \/ keyword \in {"sejong", "SEJONG"}
          /\ text \in {"Sejong Parking A", "456 Sejong Ave"}

\* the n items of page p as the upstream orders them (descending ids)
PageItems(m, p, n) == [i \in 1..n |-> RawItem(m, p * 1000 + (n - i))]

----------------------------------------------------------------------------
(* The upstream service, an external collaborator.  A script             *)
(* [full, close] answers pages 1..full with PageUnit items each and page  *)
(* full+1 with its closing answer; after that it has no more items,       *)
(* except that the closing answer "full" stands for an upstream that      *)
(* answers every page with PageUnit items.                                *)
(*   "short", "one", "almost"  a page of ShortLen, 1, PageUnit - 1 items   *)
(*   "empty"                   a page whose item list is empty             *)
(*   "oversize"                a page of PageUnit + 1 items                *)
(*   "timeout", "transport", "parse"  the round trip fails                 *)
(*   the others                that kind of JSON value                     *)

Closings == {"short", "one", "almost", "empty", "oversize", "falsy", "scalar",
             "noresp", "nobody", "noitems", "timeout", "transport", "parse",
             "full"}

\* the closing answers that are a page of fewer than PageUnit items
ShortClosings == {"short", "one", "almost"}

ShortItems(close) ==
    CASE close = "short" -> ShortLen
      [] close = "one" -> 1
      [] close = "almost" -> PageUnit - 1

Failures == {"timeout", "transport", "parse"}

Script(full, close) == [full |-> full, close |-> close]

\* the answer of one round trip: exc is "none" or the failure raised
Answer(exc, data) == [exc |-> exc, data |-> data]

ClosingAnswer(m, p, close) ==
    CASE close \in ShortClosings ->
            Answer("none", Json("items", PageItems(m, p, ShortItems(close))))
      [] close = "empty" -> Answer("none", Json("items", <<>>))
      [] close = "oversize" -> Answer("none", Json("items", PageItems(m, p, PageUnit + 1)))
      [] close = "full" -> Answer("none", Json("items", PageItems(m, p, PageUnit)))
      [] close \in Failures -> Answer(close, None)
      [] OTHER -> Answer("none", Json(close, <<>>))

PageAnswer(s, m, p) ==
    IF p <= s.full THEN Answer("none", Json("items", PageItems(m, p, PageUnit)))
    ELSE IF p = s.full + 1 \/ s.close = "full" THEN ClosingAnswer(m, p, s.close)
    ELSE Answer("none", Json("items", <<>>))

Min(a, b) == IF a < b THEN a ELSE b

\* the upstream searches the names (searchCondition 'nm', 'mtlty') for
\* searchKeyword: it answers with the items of the page whose name holds
\* the keyword
UpstreamAnswer(s, req) ==
    LET a == PageAnswer(s, req.method, req.page_index)
        Named(item) == Contains(NameOf(item), req.search_keyword)
    IN  IF req.search_keyword = "" \/ a.data.kind # "items" THEN a
        ELSE Answer("none", Json("items", SelectSeq(a.data.items, Named)))

----------------------------------------------------------------------------
(* DataCache *)

\* variant of the validity test: an entry of age ttl is still served
ValidInclusive(entry, t) == t - entry.timestamp <= TtlMinutes

\* DataCache.get: `datetime.now() - timestamp < self.ttl`
Valid(entry, t) == t - entry.timestamp < TtlMinutes

\* DataCache.get: the value returned
CacheGet(c, key, t) ==
    IF key \in DOMAIN c /\ Valid(c[key], t) THEN c[key].data ELSE None

\* variant of get's effect: a hit restarts the entry's lifetime
CacheAfterGetTouch(c, key, t) ==
    IF key \in DOMAIN c
    THEN IF t - c[key].timestamp < TtlMinutes
         THEN [c EXCEPT ![key].timestamp = t]
         ELSE [k \in DOMAIN c \ {key} |-> c[k]]
    ELSE c

\* DataCache.get: the mapping it leaves (an expired entry is deleted)
CacheAfterGet(c, key, t) ==
    IF key \in DOMAIN c /\ ~Valid(c[key], t)
    THEN [k \in DOMAIN c \ {key} |-> c[k]]
    ELSE c

\* variant of set: an entry that is there is kept (the first write wins)
CacheSetIfAbsent(c, key, data, t) ==
    [k \in DOMAIN c \cup {key} |->
        IF k \in DOMAIN c THEN c[k] ELSE [data |-> data, timestamp |-> t]]

\* DataCache.set
CacheSet(c, key, data, t) ==
    [k \in DOMAIN c \cup {key} |->
        IF k = key THEN [data |-> data, timestamp |-> t] ELSE c[k]]

\* DataCache.clear
CacheClear(c) == [k \in {} |-> [data |-> None, timestamp |-> 0]]

----------------------------------------------------------------------------
(* KoreanOpenAPIClient *)

\* the f-string cache keys of the three client methods
CacheKey(m, page_index, page_unit, search_condition, search_keyword) ==
    IF m = "smoking"
    THEN "smoking_" \o ToString(page_index) \o "_" \o ToString(page_unit)
             \o "_" \o search_keyword
    ELSE m \o "_" \o ToString(page_index) \o "_" \o ToString(page_unit)
             \o "_" \o search_condition \o "_" \o search_keyword

\* the arguments of one client method call
Request(m, page_index, page_unit, search_keyword) ==
    [method |-> m, page_index |-> page_index, page_unit |-> page_unit,
     search_condition |-> DefaultCondition(m),
     search_keyword |-> search_keyword,
     key |-> CacheKey(m, page_index, page_unit, DefaultCondition(m),
                      search_keyword)]

\* variant of the store: whatever the fetch returned is stored
CacheAfterFetchAlways(c, req, data, t) == CacheSet(c, req.key, data, t)

\* `if data: self.cache.set(cache_key, data)`
CacheAfterFetch(c, req, data, t) ==
    IF Truthy(data) THEN CacheSet(c, req.key, data, t) ELSE c

----------------------------------------------------------------------------
(* What a handler hands back.  One record shape for all of them:          *)
(*   kind   "snapshot" | "error" | "text" | "list" | "returned" | "raised" *)
(*   code   the snapshot's type, or which error / text / list it is        *)
(*   detail the argument quoted in the message                             *)
(*   count  total_count of a snapshot, the count of a search               *)
(*   stamp  last_updated of a snapshot                                     *)
(*   data   the formatted items of a snapshot, the items returned          *)

Payload(kind, code, detail, count, stamp, data) ==
    [kind |-> kind, code |-> code, detail |-> detail, count |-> count,
     stamp |-> stamp, data |-> data]

NoPayload == Payload("none", "", "", 0, 0, <<>>)

\* variant of the error document: a bare text without an 'error' field
ErrorDocAsText(code, detail) == Payload("text", code, detail, 0, 0, <<>>)

\* json.dumps({"error": ...}) of handle_read_resource
ErrorDoc(code, detail) == Payload("error", code, detail, 0, 0, <<>>)

\* variant of the text result: an unknown tool name raises ValueError
TextRaisesOnUnknown(code, detail, count) ==
    IF code = "unknown_tool"
    THEN Payload("raised", "ValueError", detail, 0, 0, <<>>)
    ELSE Payload("text", code, detail, count, 0, <<>>)

\* [types.TextContent(type="text", text=...)] of handle_call_tool
Text(code, detail, count) == Payload("text", code, detail, count, 0, <<>>)

NameField(m) ==
    CASE m = "parking" -> "prkplceNm"
      [] m = "smoking" -> "smkngAreaNm"
      [] m = "restaurant" -> "mtlty"

AddressField(m) ==
    CASE m = "parking" -> "rdnmadr"
      [] m = "smoking" -> "rdnmadr"
      [] m = "restaurant" -> "addr"

\* item.get(field, '') on a raw item of dataset m
ItemGet(m, item, field) ==
    IF field = IdField(m) THEN item
    ELSE IF field = NameField(m) THEN NameOf(item)
    ELSE IF field = AddressField(m) THEN AddressOf(item)
    ELSE ""

ResourceType(m) ==
    CASE m = "parking" -> "sejong_parking_lots"
      [] m = "smoking" -> "sejong_smoking_areas"
      [] m = "restaurant" -> "sejong_restaurants"

\* the id, name and address of a formatted item (its other fields are
\* copied from the raw item in the same way)
FormatItem(m, item) ==
    [id |-> ItemGet(m, item, IdField(m)),
     name |-> ItemGet(m, item, NameField(m)),
     address |-> ItemGet(m, item, AddressField(m))]

\* format_parking_resource / format_smoking_area_resource /
\* format_restaurant_resource
FormatResource(m, items, t) ==
    LET formatted_items == [i \in 1..Len(items) |-> FormatItem(m, items[i])] IN
    Payload("snapshot", ResourceType(m), "", Len(formatted_items), t,
            formatted_items)

----------------------------------------------------------------------------
(* fetch_all_pages *)

\* `all_items = []`
InitialItems == <<>>

\* `page = 1`
FirstPage == 1

\* variant of the loop test: one page too many
LoopConditionOffByOne(p, mp) == p <= mp + 1

\* `while page <= max_pages`
LoopCondition(p, mp) == p <= mp

\* variants of the accumulation: assignment instead of extend, and
\* insertion at the front
ExtendOverwrite(all, items) == items
ExtendFront(all, items) == items \o all

\* `all_items.extend(items)`
Extend(all, items) == all \o items

\* `if len(items) < 100: break`
LastPage(items) == Len(items) < PageUnit

\* variant of the page step: every other page
NextPageSkip(p) == p + 2

\* `page += 1`
NextPage(p) == p + 1

\* the except clause prints to sys.stderr and breaks; where the module
\* global sys is unbound the print raises NameError out of the function
ExceptClause(sys_bound) == IF sys_bound THEN "break" ELSE "raise"

\* variant of the loop body: a page without its envelope is passed over
\* and the next page is asked for
FapBodySkipsMissing(a, p, all, sys_bound) ==
    LET stay(next) == [next |-> next, page |-> p, all_items |-> all]
        items == a.data.items
    IN  IF a.exc # "none" THEN stay(ExceptClause(sys_bound))
        ELSE IF RaisesTypeError(a.data) THEN stay(ExceptClause(sys_bound))
        ELSE IF ~Truthy(a.data) \/ ~HasItemsField(a.data)
             THEN [next |-> "continue", page |-> NextPage(p),
                   all_items |-> all]
        ELSE IF items = <<>> THEN stay("break")
        ELSE IF LastPage(items)
             THEN [next |-> "break", page |-> p,
                   all_items |-> Extend(all, items)]
             ELSE [next |-> "continue", page |-> NextPage(p),
                   all_items |-> Extend(all, items)]

\* one pass through the loop body with the answer a of api_method:
\* what happens next, and the locals after it
FapBody(a, p, all, sys_bound) ==
    LET stay(next) == [next |-> next, page |-> p, all_items |-> all]
        items == a.data.items
    IN  IF a.exc # "none" THEN stay(ExceptClause(sys_bound))
        ELSE IF ~Truthy(a.data) THEN stay("break")
        ELSE IF RaisesTypeError(a.data) THEN stay(ExceptClause(sys_bound))
        ELSE IF ~HasItemsField(a.data) THEN stay("break")
        ELSE IF items = <<>> THEN stay("break")
        ELSE IF LastPage(items)
             THEN [next |-> "break", page |-> p,
                   all_items |-> Extend(all, items)]
             ELSE [next |-> "continue", page |-> NextPage(p),
                   all_items |-> Extend(all, items)]

----------------------------------------------------------------------------
(* handle_call_tool *)

\* refresh_data: its three if-blocks, in order
StageType(s) ==
    CASE s = 1 -> "parking"
      [] s = 2 -> "smoking_area"
      [] s = 3 -> "restaurant"

\* `if resource_type in [<type>, "all"]`
StageApplies(rt, s) == rt \in {StageType(s), "all"}

\* only the parking block holds `api_client.cache.clear()`
StageClears(s) == s = 1

\* search_data: the text for the answer a of the client method
SearchText(a, rt, keyword) ==
    IF a.exc # "none" THEN Text("search_failed", a.exc, 0)
    ELSE IF ~Truthy(a.data) THEN Text("search_none", keyword, 0)
    ELSE IF RaisesTypeError(a.data) THEN Text("search_failed", "TypeError", 0)
    ELSE IF a.data.kind \in {"noresp", "nobody"} THEN Text("search_none", keyword, 0)
    ELSE Text("search_count", keyword, Len(a.data.items))

----------------------------------------------------------------------------
(* _make_request: one round trip.  It returns the parsed answer or raises *)
(* an Exception for a timeout, a transport failure or a parse failure.    *)

MakeRequest(s, req) == UpstreamAnswer(s, req)

\* variant of the await: the next page is requested along with this one
IssueAhead(req) ==
    {req, Request(req.method, req.page_index + 1, req.page_unit,
                  req.search_keyword)}

\* the requests one `await self._make_request(...)` puts in flight
Issue(req) == {req}

----------------------------------------------------------------------------
(* Inputs of the dispatch layer *)

UriInputs == KnownUris \cup {"sejong://nonexistent"}
TypeInputs == KnownTypes \cup {"all", "cctv"}
KeywordInputs == {"", "sejong"}
ToolInputs == {"show_cached_data"}

\* the upstream while the dispatch layer is exercised: every round trip
\* is answered after any one of these scripts, so that the data may change
\* and the service may fail and recover between any two round trips
ScriptsSpec == {Script(0, "short"), Script(1, "short"),
                Script(0, "transport"), Script(1, "transport")}

\* what the upstream may answer to one run of fetch_all_pages
ScriptsPages ==
    {Script(k, c) : k \in 0..MaxFull, c \in Closings \ {"full"}}
        \cup {Script(0, "full")}

MaxPagesInputs == 0..MaxPagesInput \cup {DefaultMaxPages}

----------------------------------------------------------------------------
(* A handler's run between two suspend points.  A run record tells where  *)
(* the run stops, "await" (with the request it sends) or at its end, and   *)
(* what it leaves: the cache, the locals, the calls made so far.           *)

NoRequest == Request("parking", 0, 0, "")

Run(next, c, p, all, s, cs, req, r) ==
    [next |-> next, cache |-> c, page |-> p, all_items |-> all, stage |-> s,
     calls |-> cs, req |-> req, result |-> r]

\* the call record kept in the history `calls`
Called(req) == <<req.method, req.page_index, req.page_unit>>

RECURSIVE FapRun(_, _, _, _, _, _, _, _)
RECURSIVE FapAfter(_, _, _, _, _, _, _, _, _)

\* fetch_all_pages from its loop test on: it runs through the pages the
\* cache answers and stops at the first upstream request, at its return
\* ("break") or where it raises ("raise")
FapRun(c, p, all, cs, t, m, mp, sys_bound) ==
    IF ~LoopCondition(p, mp)
    THEN Run("break", c, p, all, 0, cs, NoRequest, NoPayload)
    ELSE LET req == Request(m, p, PageUnit, "")
             data == CacheGet(c, req.key, t)
             c1 == CacheAfterGet(c, req.key, t)
             cs1 == Append(cs, Called(req))
         IN  IF Truthy(data)
             THEN FapAfter(Answer("none", data), c1, p, all, cs1, t, m, mp,
                           sys_bound)
             ELSE Run("await", c1, p, all, 0, cs1, req, NoPayload)

\* fetch_all_pages from the answer a of api_method on
FapAfter(a, c, p, all, cs, t, m, mp, sys_bound) ==
    LET b == FapBody(a, p, all, sys_bound) IN
    IF b.next = "continue"
    THEN FapRun(c, b.page, b.all_items, cs, t, m, mp, sys_bound)
    ELSE Run(b.next, c, b.page, b.all_items, 0, cs, NoRequest, NoPayload)

RECURSIVE RefreshRun(_, _, _, _, _)

\* refresh_data from its if-block s on
RefreshRun(c, s, cs, t, rt) ==
    IF s > 3
    THEN Run("done", c, 0, <<>>, s, cs, NoRequest, Text("refresh_ok", rt, 0))
    ELSE IF StageApplies(rt, s)
    THEN LET c0 == IF StageClears(s) THEN CacheClear(c) ELSE c
             req == Request(MethodOfType(StageType(s)), DefaultPageIndex,
                            DefaultPageUnit, "")
             data == CacheGet(c0, req.key, t)
             c1 == CacheAfterGet(c0, req.key, t)
             cs1 == Append(cs, Called(req))
         IN  IF Truthy(data)
             THEN RefreshRun(c1, s + 1, cs1, t, rt)
             ELSE Run("await", c1, 0, <<>>, s, cs1, req, NoPayload)
    ELSE RefreshRun(c, s + 1, cs, t, rt)

\* variant of refresh_data: a failing client call is passed over and the
\* next if-block runs
RefreshAfterContinues(a, c, s, cs, t, rt) == RefreshRun(c, s + 1, cs, t, rt)

\* refresh_data from the answer a of an if-block's client call on
RefreshAfter(a, c, s, cs, t, rt) ==
    IF a.exc # "none"
    THEN Run("done", c, 0, <<>>, s, cs, NoRequest,
             Text("refresh_failed", a.exc, 0))
    ELSE RefreshRun(c, s + 1, cs, t, rt)

\* search_data from its client call on
SearchRun(c, t, rt, keyword) ==
    LET req == Request(MethodOfType(rt), DefaultPageIndex, DefaultPageUnit,
                       keyword)
        data == CacheGet(c, req.key, t)
        c1 == CacheAfterGet(c, req.key, t)
    IN  IF Truthy(data)
        THEN Run("done", c1, 0, <<>>, 0, <<Called(req)>>, NoRequest,
                 SearchText(Answer("none", data), rt, keyword))
        ELSE Run("await", c1, 0, <<>>, 0, <<Called(req)>>, req, NoPayload)

\* variant of the caller: handle_read_resource without its try/except
FapResultUncaught(o, r, t) ==
    IF r.next = "raise"
    THEN Payload("raised", "NameError", "", 0, 0, <<>>)
    ELSE IF o.name = "fetch_all_pages"
    THEN Payload("returned", "", "", Len(r.all_items), 0, r.all_items)
    ELSE FormatResource(MethodOfUri(o.arg), r.all_items, t)

\* what the caller of fetch_all_pages makes of its return or its exception:
\* handle_read_resource formats the items, or turns the exception into an
\* error document
FapResult(o, r, t) ==
    IF o.name = "fetch_all_pages"
    THEN IF r.next = "raise"
         THEN Payload("raised", "NameError", "", 0, 0, <<>>)
         ELSE Payload("returned", "", "", Len(r.all_items), 0, r.all_items)
    ELSE IF r.next = "raise"
         THEN ErrorDoc("read_failed", "NameError")
         ELSE FormatResource(MethodOfUri(o.arg), r.all_items, t)

----------------------------------------------------------------------------
(* The state machine *)

\* variant of the credential test: the test is left out
InitializedAlways(client) == TRUE

\* `if not api_client` of handle_read_resource and handle_call_tool
Initialized(client) == client # "None"

fixed == <<api_client, sys_global, stored>>

\* a handler invocation.  History: follows is the resource type of the
\* refresh_data that returned success right before it (else "")
Op(name, arg, keyword) ==
    [name |-> name, arg |-> arg, keyword |-> keyword, follows |-> ""]

NoRead == [uri |-> "", payload |-> NoPayload]

EmptyCache == CacheClear(<<>>)

\* the client method a run of fetch_all_pages pages through
MethodOf(o) == IF o.name = "read_resource" THEN MethodOfUri(o.arg) ELSE o.arg

\* a run that ends at once with payload r
Done(c, cs, r) == Run("done", c, 0, <<>>, 0, cs, NoRequest, r)

\* what handler o returns at the end r of its run
Final(o, r, t) == IF r.next = "done" THEN r.result ELSE FapResult(o, r, t)

Init ==
    /\ api_client \in {"None", "client"}
    /\ sys_global \in BOOLEAN
    /\ upstream = ScriptsSpec
    /\ now = 0
    /\ cache = EmptyCache
    /\ pc = "idle"
    /\ op = Op("none", "", "")
    /\ page = FirstPage
    /\ all_items = <<>>
    /\ max_pages = DefaultMaxPages
    /\ stage = 1
    /\ pending = {}
    /\ result = NoPayload
    /\ ops = 0
    /\ calls = <<>>
    /\ fetches = 0
    /\ fresh = {}
    /\ last_read = NoRead
    /\ stored = <<>>

\* a handler is entered
Enter(o) ==
    /\ pc = "idle"
    /\ ops < MaxOps
    /\ op' = [o EXCEPT
                !.follows = IF op.name = "refresh_data"
                                /\ result.code = "refresh_ok"
                            THEN op.arg ELSE ""]
    /\ ops' = ops + 1
    /\ fresh' = {}

\* handler o has run to r: it awaits the request of r, or it has returned.
\* f0, p0 and lr are the fetch count, the requests in flight and the reads
\* remembered before this run.
Settle(o, r, f0, p0, lr) ==
    /\ cache' = r.cache
    /\ calls' = r.calls
    /\ IF r.next = "await"
       THEN /\ pc' = "await"
            /\ pending' = p0 \cup Issue(r.req)
            /\ fetches' = f0 + 1
            /\ page' = r.page
            /\ all_items' = r.all_items
            /\ stage' = r.stage
            /\ last_read' = lr
            /\ UNCHANGED result
       ELSE /\ pc' = "idle"
            /\ pending' = p0
            /\ fetches' = f0
            /\ page' = FirstPage
            /\ all_items' = <<>>
            /\ stage' = 1
            /\ result' = Final(o, r, now)
            /\ last_read' = IF o.name = "read_resource" /\ r.next # "done"
                            THEN [uri |-> o.arg, payload |-> Final(o, r, now)]
                            ELSE lr

\* handle_list_resources
HandleListResources ==
    LET o == Op("list_resources", "", "") IN
    /\ Enter(o)
    /\ Settle(o, Done(cache, <<>>,
                      Payload("list", "resources", "", 3, 0,
                              <<"sejong://parking/list",
                                "sejong://smoking-area/list",
                                "sejong://restaurant/list">>)),
              0, pending, last_read)
    /\ UNCHANGED <<fixed, upstream, now, max_pages>>

\* variant of handle_list_tools: it asks for the client first
HandleListToolsChecked ==
    LET o == Op("list_tools", "", "")
        r == IF ~Initialized(api_client)
             THEN Done(cache, <<>>, Text("not_initialized", "", 0))
             ELSE Done(cache, <<>>,
                       Payload("list", "tools", "", 2, 0,
                               <<"refresh_data", "search_data">>))
    IN  /\ Enter(o)
        /\ Settle(o, r, 0, pending, last_read)
        /\ UNCHANGED <<fixed, upstream, now, max_pages>>

\* handle_list_tools
HandleListTools ==
    LET o == Op("list_tools", "", "") IN
    /\ Enter(o)
    /\ Settle(o, Done(cache, <<>>,
                      Payload("list", "tools", "", 2, 0,
                              <<"refresh_data", "search_data">>)),
              0, pending, last_read)
    /\ UNCHANGED <<fixed, upstream, now, max_pages>>

\* handle_read_resource
HandleReadResource(uri) ==
    LET o == Op("read_resource", uri, "")
        r == IF ~Initialized(api_client)
             THEN Done(cache, <<>>, ErrorDoc("not_initialized", ""))
             ELSE IF uri \in KnownUris
             THEN FapRun(cache, FirstPage, InitialItems, <<>>, now,
                         MethodOfUri(uri), DefaultMaxPages, sys_global)
             ELSE Done(cache, <<>>, ErrorDoc("unknown_resource", uri))
    IN  /\ Enter(o)
        /\ Settle(o, r, 0, pending, last_read)
        /\ max_pages' = DefaultMaxPages
        /\ UNCHANGED <<fixed, upstream, now>>

\* fetch_all_pages called on its own with a client method and max_pages
CallFetchAllPages(m, mp) ==
    LET o == Op("fetch_all_pages", m, "") IN
    /\ ops = 0
    /\ Enter(o)
    /\ Settle(o, FapRun(cache, FirstPage, InitialItems, <<>>, now, m, mp,
                        sys_global),
              0, pending, last_read)
    /\ max_pages' = mp
    /\ UNCHANGED <<fixed, upstream, now>>

\* handle_call_tool, refresh_data
HandleRefreshData(rt) ==
    LET o == Op("refresh_data", rt, "") IN
    /\ Enter(o)
    /\ IF ~Initialized(api_client)
       THEN Settle(o, Done(cache, <<>>, Text("not_initialized", "", 0)),
                   0, pending, last_read)
       ELSE Settle(o, RefreshRun(cache, 1, <<>>, now, rt), 0, pending, NoRead)
    /\ UNCHANGED <<fixed, upstream, now, max_pages>>

\* handle_call_tool, search_data
HandleSearchData(rt, keyword) ==
    LET o == Op("search_data", rt, keyword)
        r == IF ~Initialized(api_client)
             THEN Done(cache, <<>>, Text("not_initialized", "", 0))
             ELSE IF rt \in KnownTypes
             THEN SearchRun(cache, now, rt, keyword)
             ELSE Done(cache, <<>>, Text("invalid_type", "", 0))
    IN  /\ Enter(o)
        /\ Settle(o, r, 0, pending, last_read)
        /\ UNCHANGED <<fixed, upstream, now, max_pages>>

\* handle_call_tool with a name that is neither refresh_data nor search_data
HandleUnknownTool(name) ==
    LET o == Op("call_tool", name, "")
        r == IF ~Initialized(api_client)
             THEN Done(cache, <<>>, Text("not_initialized", "", 0))
             ELSE Done(cache, <<>>, Text("unknown_tool", name, 0))
    IN  /\ Enter(o)
        /\ Settle(o, r, 0, pending, last_read)
        /\ UNCHANGED <<fixed, upstream, now, max_pages>>

\* the upstream round trip ends: the client method stores a truthy answer
\* and returns it to the handler that awaits it, or the failure is raised
\* there; the handler runs on
UpstreamReturn ==
    /\ pc = "await"
    /\ \E req \in pending, s \in upstream :
        LET a == MakeRequest(s, req)
            c1 == IF a.exc = "none"
                  THEN CacheAfterFetch(cache, req, a.data, now)
                  ELSE cache
            r == CASE op.name \in {"read_resource", "fetch_all_pages"} ->
                        FapAfter(a, c1, page, all_items, calls, now,
                                 MethodOf(op), max_pages, sys_global)
                   [] op.name = "refresh_data" ->
                        RefreshAfter(a, c1, stage, calls, now, op.arg)
                   [] op.name = "search_data" ->
                        Done(c1, calls, SearchText(a, op.arg, op.keyword))
        IN  /\ fresh' = IF a.exc = "none" /\ Truthy(a.data)
                        THEN fresh \cup {req.key}
                        ELSE fresh
            /\ Settle(op, r, fetches, pending \ {req}, last_read)
    /\ UNCHANGED <<fixed, upstream, now, max_pages, op, ops>>

\* the clock advances by the cache's time to live at once
TickMinutes == TtlMinutes

\* time passes between two requests
Tick ==
    /\ pc = "idle"
    /\ now + TickMinutes <= MaxTicks * TickMinutes
    /\ now' = now + TickMinutes
    /\ UNCHANGED <<fixed, upstream, cache, pc, op, page, all_items, max_pages,
                   stage, pending, result, ops, calls, fetches, fresh,
                   last_read>>

Next ==
    \/ HandleListResources
    \/ HandleListTools
    \/ \E uri \in UriInputs : HandleReadResource(uri)
    \/ \E rt \in TypeInputs : HandleRefreshData(rt)
    \/ \E rt \in TypeInputs \ {"all"}, keyword \in KeywordInputs :
            HandleSearchData(rt, keyword)
    \/ \E name \in ToolInputs : HandleUnknownTool(name)
    \/ UpstreamReturn
    \/ Tick

\* the dispatch layer serving one request after the other
Spec == Init /\ [][Next]_vars

(* One run of fetch_all_pages against an upstream that follows one        *)
(* script, from an empty cache.                                            *)

InitPages ==
    /\ api_client = "client"
    /\ sys_global \in BOOLEAN
    /\ upstream \in {{s} : s \in ScriptsPages}
    /\ now = 0
    /\ cache = EmptyCache
    /\ pc = "idle"
    /\ op = Op("none", "", "")
    /\ page = FirstPage
    /\ all_items = <<>>
    /\ max_pages = DefaultMaxPages
    /\ stage = 1
    /\ pending = {}
    /\ result = NoPayload
    /\ ops = 0
    /\ calls = <<>>
    /\ fetches = 0
    /\ fresh = {}
    /\ last_read = NoRead
    /\ stored = <<>>

NextPages ==
    \/ \E m \in Methods, mp \in MaxPagesInputs : CallFetchAllPages(m, mp)
    \/ UpstreamReturn

SpecPages == InitPages /\ [][NextPages]_vars

----------------------------------------------------------------------------
(* Properties of the dispatch layer, stated of Spec *)

\* the resource_type that names the dataset of a uri
TypeOfUri(uri) == CHOOSE rt \in KnownTypes : MethodOfType(rt) = MethodOfUri(uri)

\* the datasets a resource_type names
NamedMethods(rt) ==
    IF rt = "all" THEN Methods
    ELSE IF rt \in KnownTypes THEN {MethodOfType(rt)}
    ELSE {}

\* the cache keys of dataset m
DatasetKeys(m) ==
    {CacheKey(m, p, u, DefaultCondition(m), kw) :
        p \in 1..DefaultMaxPages, u \in {PageUnit, DefaultPageUnit},
        kw \in KeywordInputs}

\* handle_read_resource of a known uri has returned
ReadReturned ==
    /\ pc = "idle"
    /\ op.name = "read_resource"
    /\ op.arg \in KnownUris
    /\ api_client = "client"

\* C1: for every known resource, when the resource is read right after
\* refresh_data for its resource type (or for "all") has returned success,
\* the number of upstream fetches made during that read equals the number
\* of pages the aggregation visits: no page is served from a cache entry.
C1_ReadAfterRefreshFetchesEveryPage ==
    (ReadReturned /\ op.follows \in {TypeOfUri(op.arg), "all"})
        => fetches = Len(calls)

\* C2: once refresh_data(X) has returned success, for X one of parking,
\* smoking_area, restaurant and for "all", no cache entry of a dataset named
\* by X holds data fetched before that call began: every such entry was
\* stored during the call.
C2_RefreshLeavesNoOlderEntry ==
    (pc = "idle" /\ op.name = "refresh_data" /\ result.code = "refresh_ok")
        => \A m \in NamedMethods(op.arg) :
              \A key \in DOMAIN cache \cap DatasetKeys(m) : key \in fresh

\* C3: refresh_data of a single resource type leaves the cache entries of
\* every other dataset unchanged, at every step from its entry to its
\* return.
C3_RefreshKeepsOtherDatasets ==
    [][(op'.name = "refresh_data" /\ op'.arg \in KnownTypes
            /\ api_client = "client")
         => \A m \in Methods \ {MethodOfType(op'.arg)} :
               \A key \in DOMAIN cache \cap DatasetKeys(m) :
                   key \in DOMAIN cache' /\ cache'[key] = cache[key]]_vars

\* C4: for every known uri, a read of the uri returns the snapshot (type,
\* total_count and data) that the previous read of that uri returned, when
\* no refresh_data came between the two, whatever the upstream answered in
\* between.
C4_RereadReturnsTheSameSnapshot ==
    [][(/\ pc' = "idle"
        /\ op'.name = "read_resource"
        /\ last_read.uri = op'.arg
        /\ last_read.payload.kind = "snapshot"
        /\ (pc = "await" \/ ops' = ops + 1))
         => /\ result'.kind = last_read.payload.kind
            /\ result'.code = last_read.payload.code
            /\ result'.count = last_read.payload.count
            /\ result'.data = last_read.payload.data]_vars

----------------------------------------------------------------------------
(* Properties of one run of fetch_all_pages, stated of SpecPages *)

\* the script the upstream follows in the run
TheScript == CHOOSE s \in upstream : TRUE

\* fetch_all_pages has been called
PagesCalled == op.name = "fetch_all_pages"

\* fetch_all_pages has returned or raised
PagesEnded == PagesCalled /\ pc = "idle"

\* the answer of the upstream to page p of the run
AnswerOfPage(p) == UpstreamAnswer(TheScript, Request(op.arg, p, PageUnit, ""))

\* the items of the full pages 1..n of the upstream, in page order
RECURSIVE FullPages(_)
FullPages(n) ==
    IF n = 0 THEN <<>>
    ELSE FullPages(n - 1) \o PageItems(op.arg, n, PageUnit)

\* the pages of items the upstream serves from page p on, one after the
\* other, through the first of them that is not full and no further than
\* page mp
RECURSIVE PagesInOrder(_, _)
PagesInOrder(p, mp) ==
    IF p > mp THEN <<>>
    ELSE LET a == AnswerOfPage(p) IN
         IF a.exc # "none" \/ a.data.kind # "items" THEN <<>>
         ELSE IF Len(a.data.items) < PageUnit THEN a.data.items
         ELSE a.data.items \o PagesInOrder(p + 1, mp)

IsPrefix(s, t) == Len(s) <= Len(t) /\ SubSeq(t, 1, Len(s)) = s

\* C5: when the upstream serves k full pages and then a page of m items,
\* 0 < m < 100, and k + 1 <= max_pages, fetch_all_pages returns exactly
\* 100 * k + m items and has called the client method exactly k + 1 times.
C5_ShortPageIsAppendedAndStops ==
    (/\ PagesEnded
     /\ TheScript.close \in ShortClosings
     /\ TheScript.full + 1 <= max_pages)
        => /\ result.kind = "returned"
           /\ Len(result.data)
                = PageUnit * TheScript.full + ShortItems(TheScript.close)
           /\ Len(calls) = TheScript.full + 1

\* 100, 100, 40 gives 240 items and 3 calls
C5_Witness ==
    /\ PagesEnded
    /\ TheScript = Script(2, "short")
    /\ result.kind = "returned"
    /\ Len(result.data) = 240
    /\ Len(calls) = 3

\* C6: when the upstream serves k full pages and then a page whose
\* item list is empty, fetch_all_pages returns exactly the 100 * k items of
\* the full pages and has called the client method exactly k + 1 times.
C6_EmptyPageStops ==
    (PagesEnded /\ TheScript.close = "empty")
        => /\ result.kind = "returned"
           /\ result.data = FullPages(TheScript.full)
           /\ Len(calls) = TheScript.full + 1

\* C6, within max_pages: the same, provided that k + 1 <= max_pages.
C6_EmptyPageStopsWithinMaxPages ==
    (/\ PagesEnded
     /\ TheScript.close = "empty"
     /\ TheScript.full + 1 <= max_pages)
        => /\ result.kind = "returned"
           /\ result.data = FullPages(TheScript.full)
           /\ Len(calls) = TheScript.full + 1

\* 100 then 0 gives 100 items and 2 calls
C6_Witness ==
    /\ PagesEnded
    /\ TheScript = Script(1, "empty")
    /\ max_pages = DefaultMaxPages
    /\ result.kind = "returned"
    /\ Len(result.data) = 100
    /\ Len(calls) = 2

\* C7: when the upstream serves exactly 100 items on every page,
\* fetch_all_pages never calls the client method more than max_pages times,
\* and it returns 100 * max_pages items after exactly max_pages calls.
C7_MaxPagesStops ==
    (PagesCalled /\ TheScript.close = "full")
        => /\ Len(calls) <= max_pages
           /\ pc = "idle"
                => /\ result.kind = "returned"
                   /\ Len(calls) = max_pages
                   /\ result.data = FullPages(max_pages)

\* the default max_pages: 10 calls and 1000 items
C7_Witness ==
    /\ PagesEnded
    /\ TheScript.close = "full"
    /\ max_pages = DefaultMaxPages
    /\ Len(calls) = 10
    /\ Len(result.data) = 1000

\* C8: when the upstream serves the full pages 1..n-1 and the fetch of
\* page n raises, fetch_all_pages returns exactly the items of pages
\* 1..n-1 and no exception reaches its caller.
C8_FailingPageIsTolerated ==
    (/\ PagesEnded
     /\ TheScript.close \in Failures
     /\ TheScript.full + 1 <= max_pages)
        => /\ result.kind = "returned"
           /\ result.data = FullPages(TheScript.full)

\* C9: the sequence fetch_all_pages returns is the concatenation of the
\* appended pages in increasing page order, each page's items in the order
\* the upstream returned them, and at every step of the loop the
\* accumulated list is a prefix of it.
C9_ResultOrdering ==
    PagesCalled
        => /\ IsPrefix(all_items, PagesInOrder(FirstPage, max_pages))
           /\ (pc = "idle" /\ result.kind = "returned")
                => result.data = PagesInOrder(FirstPage, max_pages)

\* three pages returned in order: the first item of page 1 first, the last
\* item of page 3 last
C9_Witness ==
    /\ PagesEnded
    /\ TheScript = Script(2, "short")
    /\ result.kind = "returned"
    /\ Len(result.data) = 240
    /\ result.data[1] = PageItems(op.arg, 1, PageUnit)[1]
    /\ result.data[101] = PageItems(op.arg, 2, PageUnit)[1]
    /\ result.data[240] = PageItems(op.arg, 3, ShortLen)[ShortLen]

\* C10: within one run the client method is called with the page indices
\* 1, 2, 3, ... and page size 100; at most one page fetch is outstanding,
\* and it is the fetch of the page called last, so that every earlier page
\* has completed before it began.
C10_PageOrdering ==
    PagesCalled
        => /\ \A i \in 1..Len(calls) : calls[i] = <<op.arg, i, PageUnit>>
           /\ Cardinality(pending) <= 1
           /\ \A req \in pending :
                 /\ req.page_index = Len(calls)
                 /\ req.page_unit = PageUnit
           /\ pc = "idle" => pending = {}

\* the fetch of page 3 is outstanding, pages 1 and 2 are accumulated
C10_Witness ==
    /\ PagesCalled
    /\ pc = "await"
    /\ Len(calls) = 3
    /\ Cardinality(pending) = 1
    /\ Len(all_items) = 2 * PageUnit

\* the closing answers without the envelope: no response at all, or one
\* that lacks 'response', 'body' or 'items'
MissingEnvelope == {"falsy", "noresp", "nobody", "noitems"}

\* C23: when the upstream serves k full pages and then an answer that is
\* absent or lacks the 'response', 'body' or 'items' field, and that answer
\* is within max_pages, fetch_all_pages stops there: it returns exactly the
\* items of the k full pages after k + 1 calls and raises nothing.
C23_MissingEnvelopeStops ==
    (/\ PagesEnded
     /\ TheScript.close \in MissingEnvelope
     /\ TheScript.full + 1 <= max_pages)
        => /\ result.kind = "returned"
           /\ result.data = FullPages(TheScript.full)
           /\ Len(calls) = TheScript.full + 1

\* two full pages, then an envelope without 'items': 200 items, 3 calls
C23_Witness ==
    /\ PagesEnded
    /\ TheScript = Script(2, "noitems")
    /\ result.kind = "returned"
    /\ Len(result.data) = 2 * PageUnit
    /\ Len(calls) = 3

----------------------------------------------------------------------------
(* A DataCache driven on its own: set, get and clear in any order, while  *)
(* the clock moves through the instants around the time to live.          *)

\* the instants of the clock: just before, at and just after the ttl, and
\* twice the ttl
ClockInstants ==
    (TtlMinutes - MaxSlack)..(TtlMinutes + MaxSlack) \cup {2 * TtlMinutes}

\* the keys and the values the cache is driven with
KeyInputs == {CacheKey("parking", 1, PageUnit, "nm", ""),
              CacheKey("smoking", 1, PageUnit, "nm", "")}
ValueInputs == {Json("items", PageItems("parking", 1, 1)),
                Json("noresp", <<>>)}

InitCache ==
    /\ api_client = "client"
    /\ sys_global = TRUE
    /\ upstream = {}
    /\ now = 0
    /\ cache = EmptyCache
    /\ pc = "idle"
    /\ op = Op("none", "", "")
    /\ page = FirstPage
    /\ all_items = <<>>
    /\ max_pages = DefaultMaxPages
    /\ stage = 1
    /\ pending = {}
    /\ result = None
    /\ ops = 0
    /\ calls = <<>>
    /\ fetches = 0
    /\ fresh = {}
    /\ last_read = NoRead
    /\ stored = <<>>

\* what the calls on the cache leave alone
others == <<api_client, sys_global, upstream, pc, page, all_items, max_pages,
            stage, pending, ops, calls, fetches, fresh, last_read>>

\* DataCache.set(key, data)
SetCall(key, data) ==
    /\ op' = Op("set", key, "")
    /\ cache' = CacheSet(cache, key, data, now)
    /\ stored' = [k \in DOMAIN stored \cup {key} |->
                    IF k = key
                    THEN [data |-> data, timestamp |-> now, by |-> NoRequest]
                    ELSE stored[k]]
    /\ result' = None
    /\ UNCHANGED <<others, now>>

\* DataCache.get(key)
GetCall(key) ==
    /\ op' = Op("get", key, "")
    /\ result' = CacheGet(cache, key, now)
    /\ cache' = CacheAfterGet(cache, key, now)
    /\ UNCHANGED <<others, now, stored>>

\* DataCache.clear()
ClearCall ==
    /\ op' = Op("clear", "", "")
    /\ cache' = CacheClear(cache)
    /\ stored' = <<>>
    /\ result' = None
    /\ UNCHANGED <<others, now>>

\* the clock reaches its next instant
ClockTick ==
    /\ \E t \in ClockInstants :
          /\ t > now
          /\ \A u \in ClockInstants : u > now => t <= u
          /\ now' = t
    /\ UNCHANGED <<others, cache, op, result, stored>>

NextCache ==
    \/ \E key \in KeyInputs, data \in ValueInputs : SetCall(key, data)
    \/ \E key \in KeyInputs : GetCall(key)
    \/ ClearCall
    \/ ClockTick

SpecCache == InitCache /\ [][NextCache]_vars

----------------------------------------------------------------------------
(* Properties of DataCache, stated of SpecCache *)

\* the step is a call of DataCache.get
IsGetCall == op'.name = "get" /\ now' = now

\* C11: for every key, get after set returns the stored value while
\* now - storedAt < ttl and returns None as soon as now - storedAt >= ttl;
\* get never returns a value whose age is ttl or more.
C11_GetReturnsStoredValueWithinTtl ==
    [][IsGetCall =>
        LET key == op'.arg IN
        /\ key \in DOMAIN stored =>
              IF now - stored[key].timestamp < TtlMinutes
              THEN result' = stored[key].data
              ELSE result' = None
        /\ result' # None =>
              /\ key \in DOMAIN stored
              /\ now - stored[key].timestamp < TtlMinutes]_vars

\* a value stored at 0 is absent for a get at exactly ttl
C11_Witness ==
    /\ op.name = "get"
    /\ op.arg \in DOMAIN stored
    /\ stored[op.arg].timestamp = 0
    /\ now = TtlMinutes
    /\ result = None

\* C12: get on an expired key removes that entry and only that entry; get
\* on a valid key or on a missing key leaves the whole mapping, timestamps
\* included, unchanged; an entry leaves the mapping only by a get that
\* finds it expired or by clear.
C12_LazyEviction ==
    [][/\ IsGetCall =>
            LET key == op'.arg IN
            IF key \in DOMAIN cache
                 /\ now - cache[key].timestamp >= TtlMinutes
            THEN /\ DOMAIN cache' = DOMAIN cache \ {key}
                 /\ \A k \in DOMAIN cache' : cache'[k] = cache[k]
            ELSE cache' = cache
       /\ \A k \in DOMAIN cache \ DOMAIN cache' :
            \/ op'.name = "clear"
            \/ /\ IsGetCall
               /\ op'.arg = k
               /\ now - cache[k].timestamp >= TtlMinutes]_vars

\* a get has evicted its expired entry and left the other, expired as
\* well, in the mapping
C12_Witness ==
    /\ op.name = "get"
    /\ op.arg \in DOMAIN stored
    /\ op.arg \notin DOMAIN cache
    /\ \E k \in DOMAIN cache :
          /\ k # op.arg
          /\ now - cache[k].timestamp >= TtlMinutes

----------------------------------------------------------------------------
(* The client methods of KoreanOpenAPIClient called on their own, with    *)
(* any arguments.                                                          *)

\* the arguments of a client method call with a search_condition of the
\* caller's (get_sejong_smoking_area has none: it always sends 'nm')
ClientRequest(m, page_index, page_unit, search_condition, search_keyword) ==
    [method |-> m, page_index |-> page_index, page_unit |-> page_unit,
     search_condition |-> search_condition,
     search_keyword |-> search_keyword,
     key |-> CacheKey(m, page_index, page_unit, search_condition,
                      search_keyword)]

\* the parameter tuple of a call
Tuple(req) ==
    <<req.method, req.page_index, req.page_unit, req.search_condition,
      req.search_keyword>>

PageIndexInputs == {DefaultPageIndex, DefaultPageIndex + 1}
PageUnitInputs == {DefaultPageUnit}
ConditionInputs(m) ==
    IF m = "smoking" THEN {DefaultCondition(m)}
    ELSE {DefaultCondition(m), DefaultCondition(m) \o "_a"}
ClientKeywordInputs == {"", "b", "a_b"}

\* the upstream while the client is driven on its own
ScriptsClient ==
    {Script(0, c) : c \in {"one", "falsy", "timeout", "transport", "parse"}}

ClientOp(req) ==
    [name |-> "client", arg |-> req.method, keyword |-> req.search_keyword,
     follows |-> "", request |-> req]

InitClient ==
    /\ api_client = "client"
    /\ sys_global = TRUE
    /\ upstream = ScriptsClient
    /\ now = 0
    /\ cache = EmptyCache
    /\ pc = "idle"
    /\ op = Op("none", "", "")
    /\ page = FirstPage
    /\ all_items = <<>>
    /\ max_pages = DefaultMaxPages
    /\ stage = 1
    /\ pending = {}
    /\ result = None
    /\ ops = 0
    /\ calls = <<>>
    /\ fetches = 0
    /\ fresh = {}
    /\ last_read = NoRead
    /\ stored = <<>>

\* what the client methods leave alone
untouched == <<api_client, sys_global, upstream, now, page, all_items,
               max_pages, stage, last_read>>

\* get_sejong_parking_info / get_sejong_smoking_area /
\* get_sejong_restaurant up to the cache hit or the upstream request
ClientCall(m, page_index, page_unit, search_condition, search_keyword) ==
    LET req == ClientRequest(m, page_index, page_unit, search_condition,
                             search_keyword)
        cached_data == CacheGet(cache, req.key, now)
    IN  /\ Enter(ClientOp(req))
        /\ cache' = CacheAfterGet(cache, req.key, now)
        /\ calls' = <<Called(req)>>
        /\ IF Truthy(cached_data)
           THEN /\ result' = cached_data
                /\ pc' = "idle"
                /\ pending' = {}
                /\ fetches' = 0
           ELSE /\ pc' = "await"
                /\ pending' = Issue(req)
                /\ fetches' = 1
                /\ UNCHANGED result
        /\ UNCHANGED <<untouched, stored>>

\* the client method from the answer of _make_request on: a truthy answer
\* is stored and returned, a failure is raised
ClientReturn ==
    /\ pc = "await"
    /\ op.name = "client"
    /\ \E req \in pending, s \in upstream :
        LET a == MakeRequest(s, req) IN
        /\ pc' = "idle"
        /\ pending' = pending \ {req}
        /\ IF a.exc # "none"
           THEN /\ result' = Payload("raised", a.exc, "", 0, 0, <<>>)
                /\ UNCHANGED <<cache, stored, fresh>>
           ELSE /\ result' = a.data
                /\ cache' = CacheAfterFetch(cache, req, a.data, now)
                /\ fresh' = IF Truthy(a.data) THEN fresh \cup {req.key}
                            ELSE fresh
                /\ stored' =
                     IF Truthy(a.data)
                     THEN [k \in DOMAIN stored \cup {req.key} |->
                             IF k = req.key
                             THEN [data |-> a.data, timestamp |-> now,
                                   by |-> req]
                             ELSE stored[k]]
                     ELSE stored
    /\ UNCHANGED <<untouched, op, ops, calls, fetches>>

NextClient ==
    \/ \E m \in Methods, page_index \in PageIndexInputs,
          page_unit \in PageUnitInputs,
          search_keyword \in ClientKeywordInputs :
            \E search_condition \in ConditionInputs(m) :
                ClientCall(m, page_index, page_unit, search_condition,
                           search_keyword)
    \/ ClientReturn
    \/ Tick

SpecClient == InitClient /\ [][NextClient]_vars

(* Properties of the client's cache keys, stated of SpecClient *)

\* C13: two calls with different parameter tuples (dataset, page index,
\* page size, search condition, search keyword) never share a cache key:
\* the entry under the key of a call was stored by a call with the same
\* tuple.
C13_KeysAreUniquePerTuple ==
    (op.name = "client" /\ op.request.key \in DOMAIN stored)
        => Tuple(stored[op.request.key].by) = Tuple(op.request)

\* the signature of request req has a valid cache entry: the entry under
\* its key is younger than the ttl and was stored by a call with the same
\* parameter tuple
HasValidEntry(req) ==
    /\ req.key \in DOMAIN cache
    /\ Valid(cache[req.key], now)
    /\ req.key \in DOMAIN stored
    /\ Tuple(stored[req.key].by) = Tuple(req)

\* the step is the call of a client method
IsClientCall == ops' = ops + 1 /\ op'.name = "client"

\* C28: a client call whose signature has a valid cache entry returns that
\* entry and sends no upstream request; a call whose signature has none
\* sends exactly one request and, when the answer is non-empty data,
\* stores it under the key of that signature and changes no other entry.
C28_CacheThroughFetch ==
    [][/\ IsClientCall =>
            LET req == op'.request IN
            IF HasValidEntry(req)
            THEN /\ pc' = "idle"
                 /\ result' = cache[req.key].data
                 /\ fetches' = 0
                 /\ pending' = {}
                 /\ cache' = cache
            ELSE /\ pc' = "await"
                 /\ fetches' = 1
                 /\ pending' = {req}
       /\ (pc = "await" /\ pc' = "idle" /\ op.name = "client"
               /\ result'.kind \notin {"raised", "falsy"}) =>
            /\ fetches' = 1
            /\ cache' = CacheSet(cache, op.request.key, result', now)]_vars

\* a client method has ended without data: its fetch has raised, or has
\* returned empty data
EndedWithoutData ==
    /\ pc = "idle"
    /\ op.name = "client"
    /\ result.kind \in {"raised", "falsy"}

\* C29: when the upstream call of a client method raises (timeout,
\* transport or parse failure) or returns empty data, the cache is left
\* exactly as it was before the upstream call: no entry is created, and
\* the signature still has no valid entry, so that the next call with it
\* fetches again.
C29_FailedFetchCreatesNoEntry ==
    [][(pc = "await" /\ EndedWithoutData')
         => /\ cache' = cache
            /\ ~Truthy(CacheGet(cache', op'.request.key, now'))]_vars

\* a fetch has failed while the cache holds the entry of another call
C29_Witness ==
    /\ EndedWithoutData
    /\ result.kind = "raised"
    /\ cache # EmptyCache
    /\ op.request.key \notin DOMAIN cache

----------------------------------------------------------------------------
(* Properties of the tools and of the error paths, stated of Spec *)

\* the formatted items whose name or address holds the keyword
Matching(items, keyword) ==
    LET Holds(item) == \/ Contains(item.name, keyword)
                       \/ Contains(item.address, keyword)
    IN  SelectSeq(items, Holds)

\* search_data has answered a search of a known resource type
SearchAnswered ==
    /\ pc = "idle"
    /\ op.name = "search_data"
    /\ op.arg \in KnownTypes
    /\ result.code \in {"search_count", "search_none"}

\* C14: search_data(resource_type, keyword) finds the formatted items of
\* the resource whose name or address holds the keyword, whatever the case
\* of the letters: the count it returns is the number of those items.  The
\* resource's items are those of its last snapshot.
C14_SearchCountsTheMatchingItems ==
    (/\ SearchAnswered
     /\ last_read.uri = UriOfMethod(MethodOfType(op.arg))
     /\ last_read.payload.kind = "snapshot")
        => result.count = Len(Matching(last_read.payload.data, op.keyword))

\* the elements of a sequence
Elements(seq) == {seq[i] : i \in 1..Len(seq)}

\* C15: show_cached_data is a known tool: it is listed by list_tools, and
\* a call of it reports, for every entry of the cache, its key, its
\* timestamp and its remaining time to live ttl - (now - storedAt), which
\* is never negative.
C15_ShowCachedDataReportsTheCache ==
    /\ (pc = "idle" /\ op.name = "list_tools")
          => "show_cached_data" \in Elements(result.data)
    /\ (/\ pc = "idle"
        /\ op.name = "call_tool"
        /\ op.arg = "show_cached_data"
        /\ api_client = "client")
          => /\ result.kind = "text"
             /\ result.code # "unknown_tool"
             /\ {e.key : e \in Elements(result.data)} = DOMAIN cache
             /\ \A e \in Elements(result.data) :
                   /\ e.timestamp = cache[e.key].timestamp
                   /\ e.remaining = TtlMinutes - (now - e.timestamp)
                   /\ e.remaining >= 0

\* the step enters the handler named name
Enters(name) == ops' = ops + 1 /\ op'.name = name

\* C16: handle_read_resource with a uri outside the known set returns a
\* JSON document with an 'error' field, raises nothing, sends no upstream
\* request and leaves the cache unchanged.
C16_UnknownResourceIsAnError ==
    [][(Enters("read_resource") /\ op'.arg \notin KnownUris)
         => /\ pc' = "idle"
            /\ result'.kind = "error"
            /\ fetches' = 0
            /\ pending' = pending
            /\ cache' = cache]_vars

\* an unknown uri answered while the cache holds an entry
C16_Witness ==
    /\ pc = "idle"
    /\ op.name = "read_resource"
    /\ op.arg \notin KnownUris
    /\ result = ErrorDoc("unknown_resource", op.arg)
    /\ cache # EmptyCache

\* C17: handle_call_tool with a name outside the known tools returns an
\* error text, raises nothing, sends no upstream request and leaves the
\* cache unchanged; the dispatch layer is idle after it, in the state it
\* had before, and so serves every later operation.
C17_UnknownToolIsAnError ==
    [][Enters("call_tool")
         => /\ result'.kind = "text"
            /\ result'.code \in {"unknown_tool", "not_initialized"}
            /\ pc' = "idle"
            /\ fetches' = 0
            /\ pending' = pending
            /\ cache' = cache
            /\ now' = now
            /\ api_client' = api_client]_vars

\* an unknown tool answered as the second operation, the cache holding the
\* entry of the first
C17_Witness ==
    /\ pc = "idle"
    /\ op.name = "call_tool"
    /\ result = Text("unknown_tool", op.arg, 0)
    /\ ops = 2
    /\ cache # EmptyCache

\* C18: refresh_data or search_data with a resource type outside the known
\* set returns an error result, not a success result, and does not modify
\* the cache.
C18_UnknownResourceTypeIsAnError ==
    [][(/\ api_client = "client"
        /\ \/ Enters("refresh_data") /\ op'.arg \notin KnownTypes \cup {"all"}
           \/ Enters("search_data") /\ op'.arg \notin KnownTypes)
         => /\ pc' = "idle"
            /\ result'.kind = "text"
            /\ result'.code = "invalid_type"
            /\ cache' = cache]_vars

\* the fixed lists
ResourceList ==
    <<"sejong://parking/list", "sejong://smoking-area/list",
      "sejong://restaurant/list">>
ToolList == <<"refresh_data", "search_data">>

\* C19: without a client (api_client is None) list_resources and
\* list_tools return their fixed lists, every read_resource and every
\* call_tool returns the 'not initialized' error, and no upstream request
\* is ever sent.
C19_NotInitialized ==
    api_client = "None"
        => /\ pc = "idle"
           /\ pending = {}
           /\ fetches = 0
           /\ op.name = "list_resources"
                => result.kind = "list" /\ result.data = ResourceList
           /\ op.name = "list_tools"
                => result.kind = "list" /\ result.data = ToolList
           /\ op.name = "read_resource"
                => result = ErrorDoc("not_initialized", "")
           /\ op.name \in {"refresh_data", "search_data", "call_tool"}
                => result = Text("not_initialized", "", 0)

\* a known resource read without a client, after another operation
C19_Witness ==
    /\ api_client = "None"
    /\ ops = 2
    /\ op.name = "read_resource"
    /\ op.arg \in KnownUris
    /\ result = ErrorDoc("not_initialized", "")

\* C27: handle_list_resources and handle_list_tools return their fixed
\* list in every state, with or without a client, send no upstream request
\* and leave the cache unchanged.
C27_EnumerationIsPure ==
    [][(Enters("list_resources") \/ Enters("list_tools"))
         => /\ pc' = "idle"
            /\ result'.kind = "list"
            /\ result'.data = IF op'.name = "list_resources"
                              THEN ResourceList ELSE ToolList
            /\ result'.count = Len(result'.data)
            /\ fetches' = 0
            /\ pending' = pending
            /\ cache' = cache
            /\ api_client' = api_client]_vars

\* the resources listed as the second operation, the cache holding the
\* entry of the first
C27_Witness ==
    /\ pc = "idle"
    /\ op.name = "list_resources"
    /\ ops = 2
    /\ cache # EmptyCache
    /\ result.data = ResourceList

----------------------------------------------------------------------------
(* The dispatch layer in front of an upstream that fails or answers with  *)
(* a malformed envelope in any round trip.                                 *)

ScriptsFaults ==
    {Script(0, c) : c \in {"one", "falsy", "scalar", "noitems", "timeout",
                           "transport", "parse"}}

InitFaults ==
    /\ api_client \in {"None", "client"}
    /\ sys_global \in BOOLEAN
    /\ upstream = ScriptsFaults
    /\ now = 0
    /\ cache = EmptyCache
    /\ pc = "idle"
    /\ op = Op("none", "", "")
    /\ page = FirstPage
    /\ all_items = <<>>
    /\ max_pages = DefaultMaxPages
    /\ stage = 1
    /\ pending = {}
    /\ result = NoPayload
    /\ ops = 0
    /\ calls = <<>>
    /\ fetches = 0
    /\ fresh = {}
    /\ last_read = NoRead
    /\ stored = <<>>

SpecFaults == InitFaults /\ [][Next]_vars

\* C20: no dispatch operation ever raises: whatever the sequence of
\* operations and whatever the upstream does (answer, timeout, transport
\* error, parse error, malformed envelope), each operation returns a
\* payload of its shape: a list for the two list operations, a JSON
\* document (a snapshot, or a document with an 'error' field) for a
\* resource read, a text for a tool call.
C20_EveryOperationReturnsItsShape ==
    (pc = "idle" /\ op.name # "none")
        => /\ op.name \in {"list_resources", "list_tools"}
                => result.kind = "list"
           /\ op.name = "read_resource"
                => result.kind \in {"snapshot", "error"}
           /\ op.name \in {"refresh_data", "search_data", "call_tool"}
                => result.kind = "text"

\* a read answered with an error document after the upstream failed and
\* the except clause of fetch_all_pages raised in turn
C20_Witness ==
    /\ pc = "idle"
    /\ op.name = "read_resource"
    /\ op.arg \in KnownUris
    /\ fetches = 1
    /\ result = ErrorDoc("read_failed", "NameError")

----------------------------------------------------------------------------
(* Resource reads against an upstream that follows one script: a read     *)
(* from the empty cache, and the reads after it that find the pages of    *)
(* the earlier ones cached.                                                *)

InitRead ==
    /\ api_client = "client"
    /\ sys_global \in BOOLEAN
    /\ upstream \in {{s} : s \in ScriptsPages}
    /\ now = 0
    /\ cache = EmptyCache
    /\ pc = "idle"
    /\ op = Op("none", "", "")
    /\ page = FirstPage
    /\ all_items = <<>>
    /\ max_pages = DefaultMaxPages
    /\ stage = 1
    /\ pending = {}
    /\ result = NoPayload
    /\ ops = 0
    /\ calls = <<>>
    /\ fetches = 0
    /\ fresh = {}
    /\ last_read = NoRead
    /\ stored = <<>>

NextRead ==
    \/ \E uri \in UriInputs : HandleReadResource(uri)
    \/ UpstreamReturn

SpecRead == InitRead /\ [][NextRead]_vars

(* Properties of a resource read, stated of SpecRead *)

\* the items of the full pages 1..n of dataset m, in page order
RECURSIVE FullPagesOf(_, _)
FullPagesOf(m, n) ==
    IF n = 0 THEN <<>>
    ELSE FullPagesOf(m, n - 1) \o PageItems(m, n, PageUnit)

\* C21: when the upstream serves the full pages 1..n-1 and the fetch of
\* page n fails while handle_read_resource aggregates a known resource, the
\* response is a snapshot document that holds exactly the items of pages
\* 1..n-1, not an error document.
C21_ReadSurvivesAFailingPage ==
    (ReadReturned /\ TheScript.close \in Failures)
        => /\ result.kind = "snapshot"
           /\ result.data
                = FormatResource(MethodOfUri(op.arg),
                                 FullPagesOf(MethodOfUri(op.arg),
                                             TheScript.full), now).data

----------------------------------------------------------------------------
(* Properties of refresh_data and search_data, stated of Spec *)

\* refresh_data has returned its failure text
RefreshFailed ==
    /\ pc = "idle"
    /\ op.name = "refresh_data"
    /\ result.code = "refresh_failed"

\* the dataset of the client call made last
LastCalled == calls[Len(calls)][1]

\* C22: when the repopulating fetch of refresh_data fails, the call
\* returns a failure result and the cache holds no entry of the dataset
\* whose fetch failed: the prior value is gone and nothing partial remains.
C22_FailedRefreshLeavesTheDatasetCold ==
    RefreshFailed
        => /\ result.kind = "text"
           /\ DOMAIN cache \cap DatasetKeys(LastCalled) = {}

\* the first request of a read of dataset m
FirstRequest(m) == Request(m, FirstPage, PageUnit, "")

\* C24: search_data on a resource type whose resource is cached (its first
\* page is a valid cache entry) sends no upstream request, and on a
\* resource that is not cached it starts the read of the resource: the
\* request it sends is the first request of the aggregation.
C24_SearchEnsuresTheResourceIsCached ==
    [][(/\ Enters("search_data")
        /\ op'.arg \in KnownTypes
        /\ api_client = "client")
         => LET first == FirstRequest(MethodOfType(op'.arg)) IN
            IF Truthy(CacheGet(cache, first.key, now))
            THEN /\ pc' = "idle"
                 /\ fetches' = 0
                 /\ pending' = pending
            ELSE pending' = pending \cup {first}]_vars

----------------------------------------------------------------------------
(* main(): the service key is looked up, the client is built, and the      *)
(* server runs.                                                            *)

\* os.getenv('OPENAPI_KOREA_SERVICE_KEY'): None when the variable is unset
EnvInputs == {"None", "", "ENV_KEY"}

\* config.json: what open() and json.load() make of it
\*   "missing"      open raises FileNotFoundError
\*   "unreadable"   open raises PermissionError
\*   "undecodable"  the bytes are not UTF-8: read raises UnicodeDecodeError
\*   "unparsable"   the text is not JSON: json.load raises JSONDecodeError
\*   "notobject"    JSON, but a list, a string, a number or null
\*   "object"       a JSON object; serviceKey is its value of 'serviceKey'
\*                  ("None" when it has none)
ConfigFile(file, serviceKey) == [file |-> file, serviceKey |-> serviceKey]

ConfigFiles == {"missing", "unreadable", "undecodable", "unparsable",
                "notobject", "object"}
ConfigKeys == {"None", "", "CFG_KEY"}

ConfigInputs ==
    {ConfigFile(f, "None") : f \in ConfigFiles \ {"object"}}
      \cup {ConfigFile("object", k) : k \in ConfigKeys}

\* Python truthiness of a service key
KeyTruthy(service_key) == service_key \notin {"None", ""}

\* the try block of main: the key read from config.json, or the exception
\* that leaves the block (FileNotFoundError and JSONDecodeError are passed
\* over, the key stays None)
ConfigLoad(config) ==
    CASE config.file = "missing" -> [exc |-> "none", key |-> "None"]
      [] config.file = "unreadable" ->
            [exc |-> "PermissionError", key |-> "None"]
      [] config.file = "undecodable" ->
            [exc |-> "UnicodeDecodeError", key |-> "None"]
      [] config.file = "unparsable" -> [exc |-> "none", key |-> "None"]
      [] config.file = "notobject" ->
            [exc |-> "AttributeError", key |-> "None"]
      [] config.file = "object" -> [exc |-> "none", key |-> config.serviceKey]

\* main up to server.run: the exception it raises ("none" if none) and the
\* service key it ends with
MainRun(env, config) ==
    IF KeyTruthy(env) THEN [exc |-> "none", key |-> env]
    ELSE ConfigLoad(config)

MainOp(env, config) ==
    [name |-> "main", arg |-> "", keyword |-> "", follows |-> "",
     env |-> env, config |-> config]

InitMain ==
    /\ api_client = "None"
    /\ sys_global \in BOOLEAN
    /\ upstream = ScriptsSpec
    /\ now = 0
    /\ cache = EmptyCache
    /\ pc = "start"
    /\ op = Op("none", "", "")
    /\ page = FirstPage
    /\ all_items = <<>>
    /\ max_pages = DefaultMaxPages
    /\ stage = 1
    /\ pending = {}
    /\ result = NoPayload
    /\ ops = 0
    /\ calls = <<>>
    /\ fetches = 0
    /\ fresh = {}
    /\ last_read = NoRead
    /\ stored = <<>>

\* main(): with a key the global api_client is set; then the server runs
\* and the handlers are served, unless an exception has left main
Main(env, file, serviceKey) ==
    LET config == ConfigFile(file, serviceKey)
        r == MainRun(env, config)
    IN
    /\ config \in ConfigInputs
    /\ pc = "start"
    /\ op' = MainOp(env, config)
    /\ IF r.exc # "none"
       THEN /\ pc' = "crashed"
            /\ result' = Payload("raised", r.exc, "", 0, 0, <<>>)
            /\ UNCHANGED api_client
       ELSE /\ pc' = "idle"
            /\ result' = Payload("returned", "started", r.key, 0, 0, <<>>)
            /\ api_client' = IF KeyTruthy(r.key) THEN "client" ELSE "None"
    /\ UNCHANGED <<sys_global, stored, upstream, now, cache, page, all_items,
                   max_pages, stage, pending, ops, calls, fetches, fresh,
                   last_read>>

NextMain ==
    \/ \E env \in EnvInputs, file \in ConfigFiles, serviceKey \in ConfigKeys :
          Main(env, file, serviceKey)
    \/ Next

SpecMain == InitMain /\ [][NextMain]_vars

(* Properties of the startup, stated of SpecMain *)

\* C25: the service key is the environment variable's when that yields a
\* key, otherwise the configuration file's; when neither yields a key, the
\* configuration file being missing, malformed or without a key, main does
\* not fail and the server runs with api_client None.
C25_CredentialPrecedence ==
    (op.name = "main" /\ op.config.file # "unreadable")
        => /\ result.kind = "returned"
           /\ pc = "idle"
           /\ IF KeyTruthy(op.env)
              THEN api_client = "client" /\ result.detail = op.env
              ELSE IF op.config.file = "object"
                        /\ KeyTruthy(op.config.serviceKey)
              THEN /\ api_client = "client"
                   /\ result.detail = op.config.serviceKey
              ELSE api_client = "None"

----------------------------------------------------------------------------
(* _make_request on its own: the curl process it spawns ends in one of    *)
(* the ways below, and the try/except makes an answer of it.              *)
(*   end "spawn_error"  create_subprocess_exec raises OSError              *)
(*   end "hang"         communicate() does not return within 30 seconds    *)
(*   end "exit"         the process ends with returncode and stdout        *)
(* stdout is [text, value]: text tells whether the bytes are UTF-8 and    *)
(* JSON ("json"), UTF-8 but not JSON ("notjson", "empty") or not UTF-8     *)
(* ("notutf8"); value is the JSON value of a "json" text.                  *)

Stdout(text, value) == [text |-> text, value |-> value]

Process(end, returncode, stdout) ==
    [end |-> end, returncode |-> returncode, stdout |-> stdout]

\* the JSON values curl may print
JsonValues ==
    {None, Json("scalar", <<>>), Json("noresp", <<>>), Json("nobody", <<>>),
     Json("noitems", <<>>), Json("items", <<>>),
     Json("items", PageItems("parking", 1, 1)),
     Json("items", PageItems("parking", 1, ShortLen))}

StdoutInputs ==
    {Stdout("json", v) : v \in JsonValues}
        \cup {Stdout(t, None) : t \in {"notjson", "empty", "notutf8"}}

\* curl's exit codes: success, could not connect, connect timeout
ReturnCodes == {0, 7, 28}

ProcessInputs ==
    {Process("spawn_error", 0, Stdout("empty", None)),
     Process("hang", 0, Stdout("empty", None))}
        \cup {Process("exit", rc, out) : rc \in ReturnCodes, out \in StdoutInputs}

\* variant of the parse step: text that is not JSON is returned as it is
MakeRequestOfRaw(proc) ==
    CASE proc.end = "spawn_error" -> Answer("transport", None)
      [] proc.end = "hang" -> Answer("timeout", None)
      [] proc.end = "exit" /\ proc.returncode # 0 -> Answer("transport", None)
      [] proc.stdout.text = "notutf8" -> Answer("transport", None)
      [] proc.stdout.text \in {"notjson", "empty"} ->
            Answer("none", Json("raw", <<>>))
      [] OTHER -> Answer("none", proc.stdout.value)

\* the try/except of _make_request: the value returned, or the Exception
\* raised, named after its message: "timeout" (asyncio.TimeoutError),
\* "parse" (json.JSONDecodeError), "transport" (any other exception, the
\* one raised for a non-zero returncode included)
MakeRequestOf(proc) ==
    CASE proc.end = "spawn_error" -> Answer("transport", None)
      [] proc.end = "hang" -> Answer("timeout", None)
      [] proc.end = "exit" /\ proc.returncode # 0 -> Answer("transport", None)
      [] proc.stdout.text = "notutf8" -> Answer("transport", None)
      [] proc.stdout.text \in {"notjson", "empty"} -> Answer("parse", None)
      [] OTHER -> Answer("none", proc.stdout.value)

InitFetch ==
    /\ api_client = "client"
    /\ sys_global = TRUE
    /\ upstream \in {{proc} : proc \in ProcessInputs}
    /\ now = 0
    /\ cache = EmptyCache
    /\ pc = "idle"
    /\ op = Op("none", "", "")
    /\ page = FirstPage
    /\ all_items = <<>>
    /\ max_pages = DefaultMaxPages
    /\ stage = 1
    /\ pending = {}
    /\ result = Answer("none", None)
    /\ ops = 0
    /\ calls = <<>>
    /\ fetches = 0
    /\ fresh = {}
    /\ last_read = NoRead
    /\ stored = <<>>

\* what _make_request leaves alone
unfetched == <<api_client, sys_global, upstream, now, cache, page, all_items,
               max_pages, stage, calls, fresh, last_read, stored>>

\* _make_request up to `await asyncio.wait_for(process.communicate(), ...)`
SendRequest(m, keyword) ==
    LET req == Request(m, DefaultPageIndex, DefaultPageUnit, keyword) IN
    /\ pc = "idle"
    /\ ops < MaxOps
    /\ op' = Op("_make_request", m, keyword)
    /\ ops' = ops + 1
    /\ pc' = "await"
    /\ pending' = Issue(req)
    /\ fetches' = fetches + 1
    /\ UNCHANGED <<unfetched, result>>

\* _make_request from the end of the curl process on
ProcessEnds ==
    /\ pc = "await"
    /\ \E req \in pending, proc \in upstream :
          /\ result' = MakeRequestOf(proc)
          /\ pending' = pending \ {req}
    /\ pc' = "idle"
    /\ UNCHANGED <<unfetched, op, ops, fetches>>

NextFetch ==
    \/ \E m \in Methods, keyword \in KeywordInputs : SendRequest(m, keyword)
    \/ ProcessEnds

SpecFetch == InitFetch /\ [][NextFetch]_vars

(* Properties of _make_request, stated of SpecFetch *)

\* the way the curl process of the run ends
TheProcess == CHOOSE proc \in upstream : TRUE

\* _make_request has returned or raised
RequestEnded == pc = "idle" /\ op.name = "_make_request"

----------------------------------------------------------------------------
(* One run of fetch_all_pages against an upstream that answers every      *)
(* round trip after any script: full, short, oversized, empty, malformed   *)
(* and failing pages in any mix.  Every request sent is answered.          *)

\* the answers of the mix: after 0..MaxFull full pages a short, an
\* oversized or an empty page, an envelope without items, no answer or a
\* failure, and full pages without end
ScriptsMixed ==
    {Script(k, c) : k \in 0..MaxFull,
                    c \in {"short", "oversize", "empty", "noitems", "falsy",
                           "timeout"}}
        \cup {Script(0, "full")}

InitMixed ==
    /\ api_client = "client"
    /\ sys_global \in BOOLEAN
    /\ upstream = ScriptsMixed
    /\ now = 0
    /\ cache = EmptyCache
    /\ pc = "idle"
    /\ op = Op("none", "", "")
    /\ page = FirstPage
    /\ all_items = <<>>
    /\ max_pages = DefaultMaxPages
    /\ stage = 1
    /\ pending = {}
    /\ result = NoPayload
    /\ ops = 0
    /\ calls = <<>>
    /\ fetches = 0
    /\ fresh = {}
    /\ last_read = NoRead
    /\ stored = <<>>

NextMixed ==
    \/ \E m \in Methods, mp \in 0..MaxPagesInput : CallFetchAllPages(m, mp)
    \/ UpstreamReturn

\* the event loop resumes the coroutine as soon as its round trip has
\* ended, and every round trip ends (wait_for gives it 30 seconds)
SpecMixed == InitMixed /\ [][NextMixed]_vars /\ WF_vars(UpstreamReturn)

(* Properties of the aggregation's termination, stated of SpecMixed *)

\* C30: for every mix of full, short, oversized, empty, malformed and
\* failing pages and every max_pages >= 0, fetch_all_pages, once called,
\* ends (it returns, or its except clause raises), provided every fetch
\* returns, and it never calls the client method more than max_pages times.
C30_AggregationTerminatesWithinTheBound ==
    /\ PagesCalled ~> PagesEnded
    /\ [](PagesCalled => Len(calls) <= max_pages)

\* a run that ended at the bound after full pages and one oversized page
C30_Witness ==
    /\ PagesEnded
    /\ max_pages = MaxPagesInput
    /\ Len(calls) = max_pages
    /\ result.kind = "returned"
    /\ Len(result.data) = max_pages * PageUnit + 1

----------------------------------------------------------------------------
(* Client calls that run at the same time: each task is a coroutine that  *)
(* calls get_sejong_parking_info; the tasks interleave at the await of     *)
(* _make_request, and the clock moves while they wait.  Here pc, op and   *)
(* result hold one value per task, pending holds [task, req] and calls    *)
(* is the history of the fetches that have ended, in the order they ended. *)

Tasks == 1..MaxTasks

\* the upstream while the tasks race: its data changes from one round trip
\* to the next, it may answer with nothing and it may fail
ScriptsRace == {Script(0, c) : c \in {"one", "short", "falsy", "transport"}}

InitRace ==
    /\ api_client = "client"
    /\ sys_global = TRUE
    /\ upstream = ScriptsRace
    /\ now = 0
    /\ cache = EmptyCache
    /\ pc = [t \in Tasks |-> "idle"]
    /\ op = [t \in Tasks |-> NoRequest]
    /\ page = FirstPage
    /\ all_items = <<>>
    /\ max_pages = DefaultMaxPages
    /\ stage = 1
    /\ pending = {}
    /\ result = [t \in Tasks |-> Answer("none", None)]
    /\ ops = 0
    /\ calls = <<>>
    /\ fetches = 0
    /\ fresh = {}
    /\ last_read = NoRead
    /\ stored = <<>>

\* what the racing calls leave alone
unraced == <<api_client, sys_global, upstream, page, all_items, max_pages,
             stage, fresh, last_read, stored>>

\* task t calls get_sejong_parking_info(search_keyword=keyword): the
\* lookup, and on a miss the request sent
TaskCall(t, keyword) ==
    LET req == Request("parking", DefaultPageIndex, DefaultPageUnit, keyword)
        cached_data == CacheGet(cache, req.key, now)
    IN  /\ pc[t] = "idle"
        /\ op' = [op EXCEPT ![t] = req]
        /\ ops' = ops + 1
        /\ cache' = CacheAfterGet(cache, req.key, now)
        /\ IF Truthy(cached_data)
           THEN /\ pc' = [pc EXCEPT ![t] = "done"]
                /\ result' = [result EXCEPT ![t] = Answer("none", cached_data)]
                /\ UNCHANGED <<pending, fetches>>
           ELSE /\ pc' = [pc EXCEPT ![t] = "await"]
                /\ pending' = pending \cup {[task |-> t, req |-> req]}
                /\ fetches' = fetches + 1
                /\ UNCHANGED result
        /\ UNCHANGED <<unraced, now, calls>>

\* the round trip of task t ends: `if data: self.cache.set(cache_key, data)`
\* and the return, or the exception raised
TaskReturn(t) ==
    /\ pc[t] = "await"
    /\ \E s \in upstream :
        LET req == op[t]
            a == MakeRequest(s, req)
        IN  /\ cache' = IF a.exc = "none"
                        THEN CacheAfterFetch(cache, req, a.data, now)
                        ELSE cache
            /\ result' = [result EXCEPT ![t] = a]
            /\ calls' = Append(calls, [task |-> t, time |-> now, answer |-> a])
            /\ pending' = pending \ {[task |-> t, req |-> req]}
    /\ pc' = [pc EXCEPT ![t] = "done"]
    /\ UNCHANGED <<unraced, now, op, ops, fetches>>

\* a minute passes
MinutePasses ==
    /\ now < MaxMinutes
    /\ now' = now + 1
    /\ UNCHANGED <<unraced, cache, pc, op, pending, result, ops, calls,
                   fetches>>

NextRace ==
    \/ \E t \in Tasks, keyword \in KeywordInputs : TaskCall(t, keyword)
    \/ \E t \in Tasks : TaskReturn(t)
    \/ MinutePasses

SpecRace == InitRace /\ [][NextRace]_vars

(* Properties of the racing calls, stated of SpecRace *)

\* every task has called with the same signature, has missed the cache and
\* has had the answer of its fetch
AllFetchedTheSame ==
    /\ \A t \in Tasks : pc[t] = "done"
    /\ \A t, u \in Tasks : op[t] = op[u]
    /\ Len(calls) = MaxTasks

\* the fetch that ended last
LastEnded == calls[Len(calls)]

\* the entry of the signature is the one written by the fetch that ended
\* last, and the mapping holds nothing else
LastWriteWins ==
    /\ DOMAIN cache = {op[1].key}
    /\ cache[op[1].key]
          = [data |-> LastEnded.answer.data, timestamp |-> LastEnded.time]

----------------------------------------------------------------------------
(* A reader and refresh_data that run at the same time.  The reader is    *)
(* handle_read_resource or search_data; both handlers interleave at the   *)
(* awaits of _make_request.  Here pc, op and result hold one value per    *)
(* handler, page and all_items are the reader's locals and stage is the   *)
(* refresher's.  History: a request in flight remembers whether it was    *)
(* sent before refresh_data ran (early), stored tells the same of each    *)
(* entry of the cache, and fresh holds the keys of the requests that were *)
(* in flight when the cache was cleared.                                   *)

Handlers == {"reader", "refresher"}

\* `api_client.cache.clear()` is reached by this refresh_data
Clears(rt) == \E s \in 1..3 : StageApplies(rt, s) /\ StageClears(s)

InFlight(h, req, early) == [task |-> h, req |-> req, early |-> early]

InitInvalidate ==
    /\ api_client = "client"
    /\ sys_global = TRUE
    /\ upstream = ScriptsSpec
    /\ now = 0
    /\ cache = EmptyCache
    /\ pc = [h \in Handlers |-> "idle"]
    /\ op = [h \in Handlers |-> Op("none", "", "")]
    /\ page = FirstPage
    /\ all_items = <<>>
    /\ max_pages = DefaultMaxPages
    /\ stage = 1
    /\ pending = {}
    /\ result = [h \in Handlers |-> NoPayload]
    /\ ops = 0
    /\ calls = <<>>
    /\ fetches = 0
    /\ fresh = {}
    /\ last_read = NoRead
    /\ stored = <<>>

unshared == <<api_client, sys_global, upstream, now, max_pages, last_read>>

\* handler h with invocation o has run to r: it awaits the request of r,
\* or it has returned
SettleHandler(h, o, r) ==
    /\ cache' = r.cache
    /\ calls' = r.calls
    /\ op' = [op EXCEPT ![h] = o]
    /\ IF r.next = "await"
       THEN /\ pc' = [pc EXCEPT ![h] = "await"]
            /\ pending' = {p \in pending : p.task # h}
                            \cup {InFlight(h, r.req, pc["refresher"] = "idle"
                                                      /\ h = "reader")}
            /\ fetches' = fetches + 1
            /\ UNCHANGED result
       ELSE /\ pc' = [pc EXCEPT ![h] = "done"]
            /\ pending' = {p \in pending : p.task # h}
            /\ result' = [result EXCEPT ![h] = Final(o, r, now)]
            /\ UNCHANGED fetches
    /\ IF h = "reader"
       THEN page' = r.page /\ all_items' = r.all_items /\ UNCHANGED stage
       ELSE stage' = r.stage /\ UNCHANGED <<page, all_items>>

\* handle_read_resource is invoked
ReaderReads(uri) ==
    LET o == Op("read_resource", uri, "") IN
    /\ pc["reader"] = "idle"
    /\ SettleHandler("reader", o,
                     FapRun(cache, FirstPage, InitialItems, calls, now,
                            MethodOfUri(uri), DefaultMaxPages, sys_global))
    /\ ops' = ops + 1
    /\ UNCHANGED <<unshared, fresh, stored>>

\* handle_call_tool is invoked with search_data
ReaderSearches(rt, keyword) ==
    LET o == Op("search_data", rt, keyword)
        r == SearchRun(cache, now, rt, keyword)
    IN  /\ pc["reader"] = "idle"
        /\ SettleHandler("reader", o, [r EXCEPT !.calls = calls \o r.calls])
        /\ ops' = ops + 1
        /\ UNCHANGED <<unshared, fresh, stored>>

\* handle_call_tool is invoked with refresh_data
Refreshes(rt) ==
    LET o == Op("refresh_data", rt, "") IN
    /\ pc["refresher"] = "idle"
    /\ SettleHandler("refresher", o, RefreshRun(cache, 1, calls, now, rt))
    /\ ops' = ops + 1
    /\ fresh' = IF Clears(rt) THEN {p.req.key : p \in pending} ELSE fresh
    /\ stored' = IF Clears(rt) THEN <<>> ELSE stored
    /\ UNCHANGED unshared

\* the round trip of handler h ends: the client method stores a truthy
\* answer and returns it, or the failure is raised; the handler runs on
HandlerResumes(h) ==
    /\ pc[h] = "await"
    /\ \E p \in pending, s \in upstream :
        LET a == MakeRequest(s, p.req)
            o == op[h]
            c1 == IF a.exc = "none"
                  THEN CacheAfterFetch(cache, p.req, a.data, now)
                  ELSE cache
            r == CASE o.name = "read_resource" ->
                        FapAfter(a, c1, page, all_items, calls, now,
                                 MethodOf(o), max_pages, sys_global)
                   [] o.name = "refresh_data" ->
                        RefreshAfter(a, c1, stage, calls, now, o.arg)
                   [] o.name = "search_data" ->
                        Done(c1, calls, SearchText(a, o.arg, o.keyword))
        IN  /\ p.task = h
            /\ stored' = [k \in DOMAIN c1 |->
                            IF k = p.req.key /\ a.exc = "none"
                                /\ Truthy(a.data)
                            THEN p.early
                            ELSE stored[k]]
            /\ SettleHandler(h, o, r)
    /\ UNCHANGED <<unshared, ops, fresh>>

NextInvalidate ==
    \/ \E uri \in KnownUris : ReaderReads(uri)
    \/ \E rt \in KnownTypes, keyword \in KeywordInputs :
            ReaderSearches(rt, keyword)
    \/ \E rt \in KnownTypes \cup {"all"} : Refreshes(rt)
    \/ \E h \in Handlers : HandlerResumes(h)

SpecInvalidate == InitInvalidate /\ [][NextInvalidate]_vars

(* Properties of the reader and the refresher, stated of SpecInvalidate *)

BothCompleted == \A h \in Handlers : pc[h] = "done"

\* C32: if a resource read or a search has an upstream fetch outstanding
\* when refresh_data clears the cache, then once both have completed (the
\* refresh with success) the cache holds no entry whose data was requested
\* before the clear.
C32_NoEntryFromBeforeTheClear ==
    (/\ BothCompleted
     /\ Clears(op["refresher"].arg)
     /\ result["refresher"].code = "refresh_ok"
     /\ fresh # {})
        => \A k \in DOMAIN cache : ~stored[k]

----------------------------------------------------------------------------
(* refresh_data alone, in front of an upstream that may answer with data,  *)
(* with nothing, or fail in each of its three ways.  History: stored is    *)
(* the sequence of the outcomes of the round trips of the running call.    *)

ScriptsRefresh ==
    {Script(0, c) : c \in {"short", "falsy", "timeout", "transport", "parse"}}

InitRefresh ==
    /\ api_client = "client"
    /\ sys_global = TRUE
    /\ upstream = ScriptsRefresh
    /\ now = 0
    /\ cache = EmptyCache
    /\ pc = "idle"
    /\ op = Op("none", "", "")
    /\ page = FirstPage
    /\ all_items = <<>>
    /\ max_pages = DefaultMaxPages
    /\ stage = 1
    /\ pending = {}
    /\ result = NoPayload
    /\ ops = 0
    /\ calls = <<>>
    /\ fetches = 0
    /\ fresh = {}
    /\ last_read = NoRead
    /\ stored = <<>>

\* handle_call_tool is invoked with refresh_data
RefreshStarts(rt) ==
    LET o == Op("refresh_data", rt, "") IN
    /\ Enter(o)
    /\ Settle(o, RefreshRun(cache, 1, <<>>, now, rt), 0, pending, NoRead)
    /\ stored' = <<>>
    /\ UNCHANGED <<api_client, sys_global, upstream, now, max_pages>>

\* the round trip of the running if-block ends: the client method stores a
\* truthy answer and returns, or the failure is raised into the try block
RefreshResumes ==
    /\ pc = "await"
    /\ \E req \in pending, s \in upstream :
        LET a == MakeRequest(s, req)
            c1 == IF a.exc = "none"
                  THEN CacheAfterFetch(cache, req, a.data, now)
                  ELSE cache
        IN  /\ fresh' = IF a.exc = "none" /\ Truthy(a.data)
                        THEN fresh \cup {req.key}
                        ELSE fresh
            /\ stored' = Append(stored, [called |-> Called(req),
                                         exc |-> a.exc])
            /\ Settle(op, RefreshAfter(a, c1, stage, calls, now, op.arg),
                      fetches, pending \ {req}, last_read)
    /\ UNCHANGED <<api_client, sys_global, upstream, now, max_pages, op, ops>>

NextRefresh ==
    \/ \E rt \in TypeInputs : RefreshStarts(rt)
    \/ RefreshResumes
    \/ Tick

SpecRefresh == InitRefresh /\ [][NextRefresh]_vars

(* Properties of refresh_data, stated of SpecRefresh *)

\* the client call of the i-th dataset
DatasetCall(i) ==
    Called(Request(MethodOfType(StageType(i)), DefaultPageIndex,
                   DefaultPageUnit, ""))

Raised(i) == stored[i].exc # "none"

\* C33: refresh_data with resource_type 'all' calls for parking, then
\* smoking_area, then restaurant, each after the one before has answered;
\* when a fetch raises, no later dataset is fetched and the call returns
\* one failure text, and the success text is returned only when the three
\* fetches have all completed without raising.
C33_RefreshAllInOrder ==
    (op.name = "refresh_data" /\ op.arg = "all") =>
        /\ Len(calls) <= 3
        /\ \A i \in 1..Len(calls) : calls[i] = DatasetCall(i)
        /\ \A i \in 1..Len(stored) : stored[i].called = calls[i]
        /\ Len(stored) = IF pc = "await" THEN Len(calls) - 1 ELSE Len(calls)
        /\ Cardinality(pending) = IF pc = "await" THEN 1 ELSE 0
        /\ \A i \in 1..Len(stored) :
              Raised(i) => /\ i = Len(calls)
                           /\ pc = "idle"
                           /\ result = Text("refresh_failed", stored[i].exc, 0)
        /\ (pc = "idle" /\ result.code = "refresh_failed")
              => Raised(Len(stored))
        /\ (pc = "idle" /\ result.code = "refresh_ok")
              => (Len(stored) = 3 /\ \A i \in 1..3 : ~Raised(i))
        /\ pc = "idle" => result.code \in {"refresh_ok", "refresh_failed"}

\* the smoking_area fetch of a refresh of 'all' raised after the parking
\* fetch had answered, and the call has returned its failure text
C33_Witness ==
    /\ op.name = "refresh_data" /\ op.arg = "all"
    /\ pc = "idle"
    /\ Len(stored) = 2
    /\ ~Raised(1) /\ Raised(2)
    /\ result.code = "refresh_failed"

----------------------------------------------------------------------------
(* The tool-only variant, server.py: four get_sejong_* tools, a client    *)
(* without a cache, and one formatter per tool.  History: stored is the   *)
(* sequence of the calls of handle_call_tool, each with the answer of its *)
(* fetch once it has arrived, and calls is the sequence of the requests   *)
(* sent upstream.                                                          *)

ToolNames == {"get_sejong_parking_info", "get_sejong_smoking_area",
              "get_sejong_restaurant", "get_sejong_cctv"}

\* `arguments.get("page_index", 1)`, `arguments.get("page_unit", 20)`
ToolPageIndex == 1
ToolPageUnit == 20

\* the arguments a caller supplies, and their values when supplied
ArgumentNames == {"page_index", "page_unit", "search_keyword"}
SuppliedInputs == {{}, {"page_unit"}, ArgumentNames}
SuppliedPageIndex == 2
SuppliedPageUnit == 5
SuppliedKeyword == "sejong"

ToolNameInputs == ToolNames \cup {"get_sejong_weather"}

\* the searchCondition each client method sends
ToolCondition(name) ==
    CASE name = "get_sejong_parking_info" -> "nm"
      [] name = "get_sejong_restaurant" -> "mtlty"
      [] OTHER -> ""

\* the query one client method of server.py sends
ToolRequest(name, supplied) ==
    [tool |-> name,
     page_index |-> IF "page_index" \in supplied THEN SuppliedPageIndex
                    ELSE ToolPageIndex,
     page_unit |-> IF "page_unit" \in supplied THEN SuppliedPageUnit
                   ELSE ToolPageUnit,
     search_condition |-> ToolCondition(name),
     search_keyword |-> IF "search_keyword" \in supplied THEN SuppliedKeyword
                        ELSE ""]

\* the upstream of server.py: a page of one item or of none, a JSON value
\* of another shape, or a failure
ScriptsTools ==
    {Script(0, c) : c \in {"one", "falsy", "scalar", "noresp", "noitems",
                           "timeout", "parse"}}

\* the client method of server.py: it returns json.loads of curl's output
\* or raises an Exception
ToolAnswer(s, req) == ClosingAnswer(req.tool, req.page_index, s.close)

\* format_*_info: the text for a truthy result
FormatTool(name, data) ==
    CASE data.kind = "items" -> Text("formatted", name, Len(data.items))
      [] data.kind = "noresp" -> Text("formatted_json", name, 0)
      [] OTHER -> Text("formatted_nodata", name, 0)

\* variant of the tool branch: the result is formatted whether it is empty
\* or not
ToolResultFormatsEmpty(name, a) ==
    IF a.exc # "none" THEN Text("tool_error", a.exc, 0)
    ELSE IF RaisesTypeError(a.data) THEN Text("tool_error", "TypeError", 0)
    ELSE FormatTool(name, a.data)

\* a tool branch of handle_call_tool from the answer a of its client call
\* on: `if result:` the formatted text, else the failure text; an exception
\* of the client or of the formatter becomes the error text
ToolResult(name, a) ==
    IF a.exc # "none" THEN Text("tool_error", a.exc, 0)
    ELSE IF ~Truthy(a.data) THEN Text("fetch_none", name, 0)
    ELSE IF RaisesTypeError(a.data) THEN Text("tool_error", "TypeError", 0)
    ELSE FormatTool(name, a.data)

\* a call of handle_call_tool
ToolOp(name, supplied) ==
    [name |-> name, arg |-> "", keyword |-> "", follows |-> "",
     supplied |-> supplied]

NoAnswer == Answer("pending", None)

InitTools ==
    /\ api_client \in {"None", "client"}
    /\ sys_global = TRUE
    /\ upstream = ScriptsTools
    /\ now = 0
    /\ cache = EmptyCache
    /\ pc = "idle"
    /\ op = ToolOp("none", {})
    /\ page = FirstPage
    /\ all_items = <<>>
    /\ max_pages = DefaultMaxPages
    /\ stage = 1
    /\ pending = {}
    /\ result = NoPayload
    /\ ops = 0
    /\ calls = <<>>
    /\ fetches = 0
    /\ fresh = {}
    /\ last_read = NoRead
    /\ stored = <<>>

untooled == <<api_client, sys_global, upstream, now, cache, page, all_items,
              max_pages, stage, last_read>>

\* handle_call_tool of server.py is invoked
CallTool(name, supplied) ==
    LET o == ToolOp(name, supplied)
        req == ToolRequest(name, supplied)
    IN  /\ Enter(o)
        /\ stored' = Append(stored, [name |-> name, supplied |-> supplied,
                                     answer |-> NoAnswer])
        /\ IF ~Initialized(api_client)
           THEN /\ result' = Text("not_initialized", "", 0)
                /\ pc' = "idle"
                /\ fetches' = 0
                /\ UNCHANGED <<pending, calls>>
           ELSE IF name \in ToolNames
           THEN /\ pc' = "await"
                /\ pending' = {req}
                /\ calls' = Append(calls, req)
                /\ fetches' = 1
                /\ UNCHANGED result
           ELSE /\ result' = Text("unknown_tool", name, 0)
                /\ pc' = "idle"
                /\ fetches' = 0
                /\ UNCHANGED <<pending, calls>>
        /\ UNCHANGED untooled

\* the client call returns or raises, and the tool branch runs to its end
ToolResumes ==
    /\ pc = "await"
    /\ \E req \in pending, s \in upstream :
        LET a == ToolAnswer(s, req) IN
        /\ result' = ToolResult(op.name, a)
        /\ stored' = [stored EXCEPT ![Len(stored)].answer = a]
    /\ pc' = "idle"
    /\ pending' = {}
    /\ UNCHANGED <<untooled, op, ops, calls, fetches, fresh>>

NextTools ==
    \/ \E name \in ToolNameInputs, supplied \in SuppliedInputs :
            CallTool(name, supplied)
    \/ ToolResumes

SpecTools == InitTools /\ [][NextTools]_vars

(* Properties of the tool-only variant, stated of SpecTools *)

IsKnownCall(c) == c.name \in ToolNames

\* the calls of known tools so far, in order
KnownCalls == SelectSeq(stored, IsKnownCall)

\* every call of a known tool has sent one request, for the page it named
\* or for page 1 of 20 items without a keyword, whatever came before it;
\* nothing is kept between calls
OneFetchPerCall ==
    /\ Len(calls) = Len(KnownCalls)
    /\ \A i \in 1..Len(calls) :
          calls[i] = ToolRequest(KnownCalls[i].name, KnownCalls[i].supplied)
    /\ ToolRequest("get_sejong_cctv", {}).page_index = 1
    /\ ToolRequest("get_sejong_cctv", {}).page_unit = 20
    /\ ToolRequest("get_sejong_cctv", {}).search_keyword = ""
    /\ op.name \in ToolNames => fetches = 1
    /\ cache = EmptyCache
    /\ Cardinality(pending) = IF pc = "await" THEN 1 ELSE 0

\* the call of a known tool that has returned, and the answer of its fetch
ToolReturned == pc = "idle" /\ op.name \in ToolNames
TheAnswer == stored[Len(stored)].answer

FormattedCodes == {"formatted", "formatted_json", "formatted_nodata"}

\* C34: in server.py every call of a known get_sejong_* tool with an
\* initialized client performs exactly one upstream fetch for the requested
\* page (by default page 1 of 20 items, no keyword) and keeps no state, so
\* that a repeated call fetches again; it returns the formatted text on a
\* non-empty result, the failure text on an empty result and the error text
\* when the fetch raises.
C34_OneFetchAndThreeTexts ==
    Initialized(api_client) =>
        /\ OneFetchPerCall
        /\ ToolReturned =>
            /\ (TheAnswer.exc = "none" /\ Truthy(TheAnswer.data))
                  <=> result.code \in FormattedCodes
            /\ (TheAnswer.exc = "none" /\ ~Truthy(TheAnswer.data))
                  <=> result = Text("fetch_none", op.name, 0)
            /\ TheAnswer.exc # "none"
                  <=> result.code = "tool_error"

\* C34, with the formatter's exception: the same, except that a non-empty
\* result on which the formatter raises (a JSON number) gives the error
\* text as well.
C34_OneFetchAndTextByOutcome ==
    Initialized(api_client) =>
        /\ OneFetchPerCall
        /\ ToolReturned =>
            /\ (/\ TheAnswer.exc = "none"
                /\ Truthy(TheAnswer.data)
                /\ ~RaisesTypeError(TheAnswer.data))
                  <=> result.code \in FormattedCodes
            /\ (TheAnswer.exc = "none" /\ ~Truthy(TheAnswer.data))
                  <=> result = Text("fetch_none", op.name, 0)
            /\ (TheAnswer.exc # "none" \/ RaisesTypeError(TheAnswer.data))
                  <=> result.code = "tool_error"

\* the same call of a known tool, without arguments, has been made twice:
\* both times it fetched page 1 of 20 items, the first fetch was answered
\* with nothing and the second with a page that has been formatted
C34_Witness ==
    /\ Initialized(api_client)
    /\ ToolReturned
    /\ Len(stored) = 2
    /\ stored[1].name = stored[2].name
    /\ stored[1].supplied = {} /\ stored[2].supplied = {}
    /\ Len(calls) = 2
    /\ calls[1] = calls[2]
    /\ calls[2].page_unit = ToolPageUnit
    /\ ~Truthy(stored[1].answer.data) /\ stored[1].answer.exc = "none"
    /\ result = Text("formatted", op.name, 1)

====
